---- MODULE Spec2Model ----
(***************************************************************************)
(* A model of rust-igd, a client of the UPnP Internet Gateway Device       *)
(* protocol.                                                               *)
(*                                                                         *)
(*   Spec        the port-mapping negotiator of src/async/gateway.rs:      *)
(*               add_any_port (AddAnyPortMapping, the RetryIf loop of      *)
(*               random-port AddPortMapping attempts, the same-port        *)
(*               sub-step) and add_port, against a gateway that answers    *)
(*               each request as it likes.                                 *)
(*   SpecSearch  the concurrent search of src/aio/search.rs: the           *)
(*               SearchFuture, its pending map and its poll function.      *)
(***************************************************************************)
EXTENDS Integers, Sequences, FiniteSets, TLC

VARIABLES
    \* ---- the port-mapping negotiator (Spec) ----
    gateway,     \* the Gateway value: [addr, control_url]
    pc,          \* where the running call is: idle, any, random, sleep, same, addport, done
    call,        \* the running call and its arguments: [op, ext, local]
    strategy,    \* delays the RetryIf strategy can still yield
    anyPort,     \* external_port drawn by add_any_port for AddAnyPortMapping
    inflight,    \* the SOAP request whose future is being awaited
    lastReq,     \* the last request the running call issued
    sent,        \* requests put on the wire by the running call, per kind
    lastAnswer,  \* the last reply the call has handled
    all718,      \* every AddPortMapping reply handled so far was error 718
    timerFailed, \* the retry timer failed during the running call
    result,      \* what the call's future resolved to
    calls,       \* calls completed on this Gateway
    \* ---- the concurrent search (SpecSearch) ----
    options,     \* SearchOptions: [timeout], whether a timeout is set
    sockQ,       \* what the UDP socket has received and poll has not read yet
    arrived,     \* datagrams and errors delivered to the socket so far
    pending,     \* SearchFuture.pending: address -> SearchState
    fetch,       \* per address, the state of the HTTP GET issued for it
    fetchCount,  \* per address, how many GETs were issued
    lastPoll,    \* what the last call of poll did
    task,        \* the one-datagram searches: [variant, stage, addr]
    deadline,    \* the one-datagram searches: the timeout's duration has passed
    doc,         \* the device tree resolver: the description document given to it
    parser,      \* the device tree resolver: which parse_control_url was called
    resolved,    \* the device tree resolver: what parse_control_url returned
    text,        \* the parsers: the text given to a parser
    parsed,      \* the parsers: which parser was called and what it returned
    outcome      \* what the search resolved to

gwVars == <<gateway, pc, call, strategy, anyPort, inflight, lastReq, sent, lastAnswer,
            all718, timerFailed, result, calls>>
searchVars == <<options, sockQ, arrived, pending, fetch, fetchCount, lastPoll, outcome>>
oneVars == <<task, deadline>>
docVars == <<doc, parser, resolved>>
textVars == <<text, parsed>>
vars == <<gwVars, searchVars, oneVars, docVars, textVars>>

-----------------------------------------------------------------------------
(* Bounds of the model.                                                    *)

\* Calls made one after the other on one Gateway.
MaxCalls == 2

\* Datagrams the socket receives during one search.
MaxDatagrams == 3

-----------------------------------------------------------------------------
(* Program constants.                                                      *)

\* FixedInterval::from_millis(0).take(20)
RetryTake == 20

\* rand::distributions::Range::new(32_768_u16, 65_535_u16)
PortLow == 32768
PortHigh == 65535

-----------------------------------------------------------------------------
(* Values.                                                                 *)

NoPort == 0 - 1

\* Gateways: one whose URL http://<addr><control_url> parses as a URI and one
\* whose control_url makes the URL unparsable (Gateway::new takes any string).
Gateways ==
    { [addr |-> "192.168.1.1:5000", control_url |-> "/ctl/IPConn"],
      [addr |-> "192.168.1.1:5000", control_url |-> "/ctl IPConn"] }

\* A bug Display could have: the control path is left out.
GatewayUrl_addr_only(g) == <<"http://", g.addr, "">>

\* impl Display for Gateway
GatewayUrl(g) == <<"http://", g.addr, g.control_url>>

\* url.parse() of soap::send_async: a URL with a blank in it is no URI.
UriParses(url) == url[3] # "/ctl IPConn"

\* Ports a random draw is tried with: the range's ends and both neighbours.
PortSamples == {32767, 32768, 51234, 65534, 65535}

\* A bug the range could have: the upper end is included.
SampleRange_inclusive(low, high) == {p \in PortSamples : low <= p /\ p <= high}

\* port_range.ind_sample(&mut rng): any port of [low, high).
SampleRange(low, high) == {p \in PortSamples : low <= p /\ p < high}

RandomPorts == SampleRange(PortLow, PortHigh)

LocalPorts == {0, 8080}
ExternalPorts == {0, 51234}

\* UPnP error codes a gateway answers with: the ones some operation
\* recognises, and two that none does.
ErrorCodes == {401, 402, 501, 605, 606, 714, 718, 724, 725, 728}

\* What the gateway may put in NewReservedPort (NoPort: absent or no u16).
ReservedPorts == {40001, 51234, NoPort}

\* What the gateway may put in errorDescription.
Descriptions == {"", "Action Failed"}

\* Text is a sequence of characters, so that parsing it is a computation.
Digit == [c \in {"0", "1", "2", "3", "4", "5", "6", "7", "8", "9"} |->
             CASE c = "0" -> 0 [] c = "1" -> 1 [] c = "2" -> 2 [] c = "3" -> 3
               [] c = "4" -> 4 [] c = "5" -> 5 [] c = "6" -> 6 [] c = "7" -> 7
               [] c = "8" -> 8 [] c = "9" -> 9]

RECURSIVE Decimal(_)
Decimal(digits) ==
    IF digits = <<>> THEN 0
    ELSE 10 * Decimal(SubSeq(digits, 1, Len(digits) - 1)) + Digit[digits[Len(digits)]]

NotANumber == -1

\* The digits without their leading zeros.
RECURSIVE StripZeros(_)
StripZeros(digits) ==
    IF Len(digits) > 1 /\ digits[1] = "0" THEN StripZeros(Tail(digits)) ELSE digits

\* The order of two numbers written in digits, without leading zeros.
LessOrEqual(a, b) ==
    \/ Len(a) < Len(b)
    \/ Len(a) = Len(b) /\ a = b
    \/ /\ Len(a) = Len(b)
       /\ \E i \in DOMAIN a :
             /\ Digit[a[i]] < Digit[b[i]]
             /\ \A j \in 1..(i - 1) : a[j] = b[j]

\* str::parse of an unsigned integer type whose maximum is written max: an
\* optional "+", then one digit or more, and no overflow; no white space.
from_str_radix(chars, max) ==
    LET digits == IF chars # <<>> /\ chars[1] = "+" THEN Tail(chars) ELSE chars
    IN  IF digits = <<>> \/ \E i \in DOMAIN digits : digits[i] \notin DOMAIN Digit
        THEN NotANumber
        ELSE IF ~LessOrEqual(StripZeros(digits), max) THEN NotANumber
        ELSE Decimal(StripZeros(digits))

u16_MAX == <<"6", "5", "5", "3", "5">>
parse_u16(chars) == from_str_radix(chars, u16_MAX)

\* The segments of a text between its dots.
RECURSIVE SplitDots(_)
SplitDots(chars) ==
    IF \A i \in DOMAIN chars : chars[i] # "."
    THEN <<chars>>
    ELSE LET dot == CHOOSE i \in DOMAIN chars :
                       chars[i] = "." /\ \A j \in 1..(i - 1) : chars[j] # "."
         IN  <<SubSeq(chars, 1, dot - 1)>> \o SplitDots(SubSeq(chars, dot + 1, Len(chars)))

\* One number of a dotted address: one to three digits, 255 at most.
Octet(chars) ==
    IF chars = <<>> \/ Len(chars) > 3 \/ \E i \in DOMAIN chars : chars[i] \notin DOMAIN Digit
    THEN NotANumber
    ELSE IF Decimal(chars) > 255 THEN NotANumber ELSE Decimal(chars)

NoAddr == <<>>

\* str::parse::<Ipv4Addr>: four numbers of 0..255 separated by dots, and
\* nothing else.
Ipv4Addr_from_str(chars) ==
    LET parts == SplitDots(chars) IN
    IF Len(parts) # 4 \/ \E i \in DOMAIN parts : Octet(parts[i]) = NotANumber
    THEN NoAddr
    ELSE [i \in 1..4 |-> Octet(parts[i])]

\* What the gateway may put in NewExternalIPAddress: an address, a host
\* name, or nothing (NoIp: no such element, or one with no text).
NoIp == <<>>
ExternalIps ==
    {<<"2", "0", "3", ".", "0", ".", "1", "1", "3", ".", "7">>,
     <<"g", "w", ".", "l", "a", "n">>, NoIp}

\* A reply to a SOAP request, as the HTTP future delivers it:
\*   success    the body holds the action's response element
\*   fault      the body holds a Fault with a UPnPError of the given code
\*              and description
\*   invalid    the body is no usable envelope
\*   transport  the HTTP request failed
Reply(kind, code, desc, port, ip) ==
    [kind |-> kind, code |-> code, desc |-> desc, port |-> port, ip |-> ip]

\* The replies that hold the action's response element: that of
\* GetExternalIPAddress with a NewExternalIPAddress, the others with a
\* NewReservedPort (which only AddAnyPortMapping's caller reads).
Successes(action) ==
    IF action = "GetExternalIPAddress"
    THEN { Reply("success", 0, "", NoPort, ip) : ip \in ExternalIps }
    ELSE { Reply("success", 0, "", p, NoIp) : p \in ReservedPorts }

Failures ==
    { Reply("fault", c, d, NoPort, NoIp) : c \in ErrorCodes, d \in Descriptions }
    \cup { Reply("invalid", 0, "", NoPort, NoIp), Reply("transport", 0, "", NoPort, NoIp) }

Replies ==
    Successes("GetExternalIPAddress") \cup Successes("AddAnyPortMapping") \cup Failures

NoReply == Reply("none", 0, "", NoPort, NoIp)

\* RequestError and Result<T, RequestError>
\* (text: the body an InvalidResponse carries)
ReqOk(v) ==
    [ok |-> TRUE, val |-> v, err |-> "", code |-> 0, desc |-> "", text |-> NoReply]
ReqErr(e, c, d) ==
    [ok |-> FALSE, val |-> NoPort, err |-> e, code |-> c, desc |-> d, text |-> NoReply]

\* RequestError::InvalidResponse(text)
ReqInvalid(reply) == [ReqErr("InvalidResponse", 0, "") EXCEPT !.text = reply]

\* The operations' errors: a named variant, or RequestError(e).
Named(tag) == [tag |-> tag, inner |-> "", code |-> 0, desc |-> "", text |-> NoReply]

\* A bug the wrapping could have: the gateway's description is dropped.
Wrapped_NoDescription(r) ==
    [tag |-> "RequestError", inner |-> r.err, code |-> r.code, desc |-> "",
     text |-> r.text]

Wrapped(r) ==
    [tag |-> "RequestError", inner |-> r.err, code |-> r.code, desc |-> r.desc,
     text |-> r.text]

\* Result<u16, AddAnyPortError>, Result<(), AddPortError>,
\* Result<(), RemovePortError> and Result<Ipv4Addr, GetExternalIpError>
Ok(port) == [ok |-> TRUE, port |-> port, ip |-> NoIp, err |-> Named("")]
OkIp(ip) == [ok |-> TRUE, port |-> NoPort, ip |-> ip, err |-> Named("")]
Err(e) == [ok |-> FALSE, port |-> NoPort, ip |-> NoIp, err |-> e]
NoResult == [ok |-> FALSE, port |-> NoPort, ip |-> NoIp, err |-> Named("none")]

\* A request: the SOAP action, the ports in its body, the URL it is POSTed
\* to, and whether it went on the wire.
Request(kind, action, ext, local, url, wire) ==
    [kind |-> kind, action |-> action, ext |-> ext, local |-> local,
     url |-> url, wire |-> wire]
NoReq == Request("none", "", NoPort, NoPort, <<>>, FALSE)

NoCall == [op |-> "none", ext |-> NoPort, local |-> NoPort, ip |-> NoIp]
NoneSent == [any |-> 0, random |-> 0, same |-> 0, add |-> 0, ip |-> 0, remove |-> 0]

-----------------------------------------------------------------------------
(* The request primitive and the error conversions of the negotiator.      *)

IsCode(r, c) == ~r.ok /\ r.err = "ErrorCode" /\ r.code = c

\* A bug parse_child could have: the port that was asked for is returned,
\* not the one the gateway reserved.
parse_child_candidate(reply) ==
    IF reply.port = NoPort THEN ReqInvalid(reply) ELSE ReqOk(anyPort)

\* parse_child::<u16, _>(txt, xml, "AddAnyPortMappingResponse", "NewReservedPort"):
\* the child's text parsed as a u16, InvalidResponse when absent or unparsable.
parse_child(reply) ==
    IF reply.port = NoPort THEN ReqInvalid(reply) ELSE ReqOk(reply.port)

\* parse_child::<Ipv4Addr, _>(txt, xml, "GetExternalIPAddressResponse",
\* "NewExternalIPAddress")
parse_child_ip(reply) ==
    IF Ipv4Addr_from_str(reply.ip) = NoAddr THEN ReqInvalid(reply)
    ELSE [ReqOk(NoPort) EXCEPT !.val = Ipv4Addr_from_str(reply.ip)]

\* The closure |_, _| Ok(()) of add_port_mapping and remove_port.
parse_unit(reply) == ReqOk(0)

\* perform_request: the HTTP failure mapped by RequestError::from, the body
\* handed to parse_response, which calls f on the success element.
perform_request(reply, f) ==
    CASE reply.kind = "transport" -> ReqErr("HttpError", 0, "")
      [] reply.kind = "invalid" -> ReqInvalid(reply)
      [] reply.kind = "fault" -> ReqErr("ErrorCode", reply.code, reply.desc)
      [] reply.kind = "success" ->
            CASE f = "child" -> parse_child(reply)
              [] f = "ip" -> parse_child_ip(reply)
              [] OTHER -> parse_unit(reply)

\* soap::send_async: an unparsable URL fails the future at once and nothing
\* is sent; otherwise the request is POSTed to the Gateway's URL.
send_async(g, kind, action, ext, local) ==
    Request(kind, action, ext, local, GatewayUrl(g), UriParses(GatewayUrl(g)))

\* What the awaited future can deliver for a request.
RepliesTo(req) ==
    IF req.wire THEN Successes(req.action) \cup Failures
    ELSE {Reply("transport", 0, "", NoPort, NoIp)}

\* The wire counter of a request's kind.
Count(s, req) ==
    IF ~req.wire THEN s
    ELSE CASE req.kind = "any" -> [s EXCEPT !.any = @ + 1]
           [] req.kind = "random" -> [s EXCEPT !.random = @ + 1]
           [] req.kind = "same" -> [s EXCEPT !.same = @ + 1]
           [] req.kind = "add" -> [s EXCEPT !.add = @ + 1]
           [] req.kind = "ip" -> [s EXCEPT !.ip = @ + 1]
           [] req.kind = "remove" -> [s EXCEPT !.remove = @ + 1]

\* A bug the guard could have: the test is left out.
internal_port_zero_unchecked(local) == FALSE

\* add_any_port's guard on the local port, and add_port's two guards.
internal_port_zero(local) == local = 0
external_port_zero(ext) == ext = 0

\* A bug the 401 arm could have: 728 takes the fallback too.
method_unknown_or_728(r) == IsCode(r, 401) \/ IsCode(r, 728)

\* add_any_port, the or_else arm "RequestError::ErrorCode(401, _)".
method_unknown(r) == IsCode(r, 401)

\* add_any_port, the or_else arm "e =>": the error of AddAnyPortMapping.
add_any_port_error(r) ==
    CASE IsCode(r, 605) -> Named("DescriptionTooLong")
      [] IsCode(r, 606) -> Named("ActionNotAuthorized")
      [] IsCode(r, 728) -> Named("NoPortsAvailable")
      [] OTHER -> Wrapped(r)

\* add_random_port_mapping, the or_else arm "RequestError::ErrorCode(724, _)".
same_port_values_required(r) == IsCode(r, 724)

\* A bug the random-port conversion could have: 725 is taken for a port
\* conflict, which RetryIf retries.
convert_add_random_port_mapping_error_725(r) ==
    CASE IsCode(r, 605) -> Named("DescriptionTooLong")
      [] IsCode(r, 606) -> Named("ActionNotAuthorized")
      [] IsCode(r, 718) -> Named("NoPortsAvailable")
      [] IsCode(r, 725) -> Named("NoPortsAvailable")
      [] OTHER -> Wrapped(r)

\* add_random_port_mapping, the or_else arm "e =>".
convert_add_random_port_mapping_error(r) ==
    CASE IsCode(r, 605) -> Named("DescriptionTooLong")
      [] IsCode(r, 606) -> Named("ActionNotAuthorized")
      [] IsCode(r, 718) -> Named("NoPortsAvailable")
      [] IsCode(r, 725) -> Named("OnlyPermanentLeasesSupported")
      [] OTHER -> Wrapped(r)

\* A bug the map could have: the port drawn by add_any_port is returned.
random_port_mapped_first(req) == anyPort

\* add_random_port_mapping, ".map(move |_| external_port)".
random_port_mapped(req) == req.ext

\* A bug the same-port conversion could have: 718 converted as the
\* random-port conversion does, which RetryIf takes as a reason to retry.
convert_add_same_port_mapping_error_718(r) ==
    CASE IsCode(r, 606) -> Named("ActionNotAuthorized")
      [] IsCode(r, 718) -> Named("NoPortsAvailable")
      [] IsCode(r, 725) -> Named("OnlyPermanentLeasesSupported")
      [] OTHER -> Wrapped(r)

\* add_same_port_mapping, the error arms of its then.
convert_add_same_port_mapping_error(r) ==
    CASE IsCode(r, 606) -> Named("ActionNotAuthorized")
      [] IsCode(r, 718) -> Named("ExternalPortInUse")
      [] IsCode(r, 725) -> Named("OnlyPermanentLeasesSupported")
      [] OTHER -> Wrapped(r)

\* A bug the same-port success could have: the first candidate is returned.
same_port_mapped_candidate(req) == anyPort

\* add_same_port_mapping, "Ok(()) => Ok(local_addr.port())".
same_port_mapped(req) == req.local

\* A bug the map_err could have: the arm of 724 is missing.
convert_add_port_error_no_724(r) ==
    CASE IsCode(r, 605) -> Named("DescriptionTooLong")
      [] IsCode(r, 606) -> Named("ActionNotAuthorized")
      [] IsCode(r, 718) -> Named("PortInUse")
      [] IsCode(r, 725) -> Named("OnlyPermanentLeasesSupported")
      [] OTHER -> Wrapped(r)

\* add_port, the map_err of its request.
convert_add_port_error(r) ==
    CASE IsCode(r, 605) -> Named("DescriptionTooLong")
      [] IsCode(r, 606) -> Named("ActionNotAuthorized")
      [] IsCode(r, 718) -> Named("PortInUse")
      [] IsCode(r, 724) -> Named("SamePortValuesRequired")
      [] IsCode(r, 725) -> Named("OnlyPermanentLeasesSupported")
      [] OTHER -> Wrapped(r)

\* A bug the then could have: 606 is not told from the other codes.
convert_get_external_ip_error_wrapped(r) == Wrapped(r)

\* get_external_ip, the error arms of its then.
convert_get_external_ip_error(r) ==
    CASE IsCode(r, 606) -> Named("ActionNotAuthorized")
      [] OTHER -> Wrapped(r)

\* A bug the map_err could have: the arm of 714 is missing.
convert_remove_port_error_no_714(r) ==
    CASE IsCode(r, 606) -> Named("ActionNotAuthorized")
      [] OTHER -> Wrapped(r)

\* remove_port, the map_err of its request.
convert_remove_port_error(r) ==
    CASE IsCode(r, 606) -> Named("ActionNotAuthorized")
      [] IsCode(r, 714) -> Named("NoSuchPortMapping")
      [] OTHER -> Wrapped(r)

\* A bug the condition could have: ActionNotAuthorized retried as well.
should_retry_606(e) ==
    e = Named("NoPortsAvailable") \/ e = Named("ActionNotAuthorized")

\* retry_add_random_port_mapping, the condition handed to RetryIf.
should_retry(e) == e = Named("NoPortsAvailable")

\* retry_add_random_port_mapping, the strategy handed to RetryIf: RetryIf
\* runs the action once when spawned and once more for every delay the
\* strategy yields.
retry_strategy == RetryTake

-----------------------------------------------------------------------------
(* The negotiator as a state machine.  A step is a call on the Gateway or  *)
(* the handler that runs when the awaited future (a SOAP reply, the retry  *)
(* timer) completes.                                                       *)

\* The search's variables while the negotiator runs.
SearchUnused ==
    /\ options = <<>>
    /\ sockQ = <<>>
    /\ arrived = 0
    /\ pending = <<>>
    /\ fetch = <<>>
    /\ fetchCount = <<>>
    /\ lastPoll = <<>>
    /\ outcome = <<>>
    /\ task = <<>>
    /\ deadline = FALSE
    /\ doc = <<>>
    /\ resolved = <<>>
    /\ parser = "none"
    /\ text = <<>>
    /\ parsed = <<>>

Init ==
    /\ gateway \in Gateways
    /\ pc = "idle"
    /\ call = NoCall
    /\ strategy = 0
    /\ anyPort = NoPort
    /\ inflight = NoReq
    /\ lastReq = NoReq
    /\ sent = NoneSent
    /\ lastAnswer = [reply |-> NoReply, to |-> "none"]
    /\ all718 = TRUE
    /\ timerFailed = FALSE
    /\ result = NoResult
    /\ calls = 0
    /\ SearchUnused

\* A bug the pairing could have: the address is left out of the result.
SocketAddrV4_new_port_only(ip, res) == res

\* get_any_address, "and_then(move |port| Ok(SocketAddrV4::new(ip, port)))":
\* the port add_any_port resolved to is paired with the address.
SocketAddrV4_new(ip, res) == IF res.ok THEN [res EXCEPT !.ip = ip] ELSE res

\* The call's future resolves to res; that of get_any_address to res paired
\* with the external address.
Finish(res) ==
    /\ pc' = "done"
    /\ result' = IF call.op = "get_any_address" THEN SocketAddrV4_new(call.ip, res)
                 ELSE res
    /\ inflight' = NoReq
    /\ UNCHANGED <<lastReq, sent, anyPort, strategy>>

\* A request is issued and its future awaited at position at.
Await(req, at) ==
    /\ pc' = at
    /\ inflight' = req
    /\ lastReq' = req
    /\ sent' = Count(sent, req)
    /\ UNCHANGED result

\* The reply handled in this step.
Answered(reply) ==
    /\ lastAnswer' = [reply |-> reply, to |-> inflight.kind]
    /\ all718' = IF inflight.action = "AddPortMapping"
                 THEN all718 /\ reply.kind = "fault" /\ reply.code = 718
                 ELSE all718

\* add_random_port_mapping: a port is drawn and AddPortMapping issued.
add_random_port_mapping ==
    \E p \in SampleRange(PortLow, PortHigh) :
        Await(send_async(gateway, "random", "AddPortMapping", p, call.local),
              "random")

\* RetryIf, on the error e of its action: the condition, then the strategy.
RetryIfError(e) ==
    IF should_retry(e) /\ strategy > 0
    THEN /\ pc' = "sleep"
         /\ strategy' = strategy - 1
         /\ inflight' = NoReq
         /\ UNCHANGED <<result, lastReq, sent, anyPort>>
    ELSE Finish(Err(e))

\* Gateway::add_any_port, up to its first await.
add_any_port(local) ==
    /\ pc = "idle"
    /\ calls < MaxCalls
    /\ call' = [op |-> "add_any_port", ext |-> NoPort, local |-> local, ip |-> NoIp]
    /\ IF internal_port_zero(local)
       THEN /\ Finish(Err(Named("InternalPortZeroInvalid")))
       ELSE \E p \in SampleRange(PortLow, PortHigh) :
               /\ anyPort' = p
               /\ Await(send_async(gateway, "any", "AddAnyPortMapping", p, local),
                        "any")
               /\ UNCHANGED strategy
    /\ UNCHANGED <<gateway, lastAnswer, all718, timerFailed, calls, searchVars, oneVars, docVars, textVars>>

\* add_any_port, the or_else on the reply to AddAnyPortMapping; its 401 arm
\* spawns the RetryIf of retry_add_random_port_mapping, which runs the action.
AnyReplied(reply) ==
    /\ pc = "any"
    /\ reply \in RepliesTo(inflight)
    /\ Answered(reply)
    /\ LET r == perform_request(reply, "child") IN
       IF r.ok THEN Finish(Ok(r.val))
       ELSE IF method_unknown(r)
            THEN /\ strategy' = retry_strategy
                 /\ add_random_port_mapping
                 /\ UNCHANGED anyPort
            ELSE Finish(Err(add_any_port_error(r)))
    /\ UNCHANGED <<gateway, call, timerFailed, calls, searchVars, oneVars, docVars, textVars>>

\* add_random_port_mapping, the map and or_else on the reply to its
\* AddPortMapping, and RetryIf's poll on the outcome.
RandomReplied(reply) ==
    /\ pc = "random"
    /\ reply \in RepliesTo(inflight)
    /\ Answered(reply)
    /\ LET r == perform_request(reply, "unit") IN
       IF r.ok THEN Finish(Ok(random_port_mapped(inflight)))
       ELSE IF same_port_values_required(r)
            THEN /\ Await(send_async(gateway, "same", "AddPortMapping",
                                     call.local, call.local), "same")
                 /\ UNCHANGED <<anyPort, strategy>>
            ELSE RetryIfError(convert_add_random_port_mapping_error(r))
    /\ UNCHANGED <<gateway, call, timerFailed, calls, searchVars, oneVars, docVars, textVars>>

\* add_same_port_mapping, the then on the reply to its AddPortMapping; its
\* outcome is the outcome of RetryIf's action.
SameReplied(reply) ==
    /\ pc = "same"
    /\ reply \in RepliesTo(inflight)
    /\ Answered(reply)
    /\ LET r == perform_request(reply, "unit") IN
       IF r.ok THEN Finish(Ok(same_port_mapped(inflight)))
       ELSE RetryIfError(convert_add_same_port_mapping_error(r))
    /\ UNCHANGED <<gateway, call, timerFailed, calls, searchVars, oneVars, docVars, textVars>>

\* RetryIf, its Sleeping state: the delay elapsed and the action runs again.
TimerFired ==
    /\ pc = "sleep"
    /\ add_random_port_mapping
    /\ UNCHANGED <<gateway, call, strategy, anyPort, lastAnswer, all718,
                   timerFailed, calls, searchVars, oneVars, docVars, textVars>>

\* RetryIf, its Sleeping state: the timer failed (RetryError::TimerError).
TimerError ==
    /\ pc = "sleep"
    /\ timerFailed' = TRUE
    /\ Finish(Err(Wrapped(ReqErr("IoError", 0, ""))))
    /\ UNCHANGED <<gateway, call, lastAnswer, all718, calls, searchVars, oneVars, docVars, textVars>>

\* Gateway::add_port, up to its await.
add_port(ext, local) ==
    /\ pc = "idle"
    /\ calls < MaxCalls
    /\ call' = [op |-> "add_port", ext |-> ext, local |-> local, ip |-> NoIp]
    /\ IF external_port_zero(ext)
       THEN Finish(Err(Named("ExternalPortZeroInvalid")))
       ELSE IF internal_port_zero(local)
            THEN Finish(Err(Named("InternalPortZeroInvalid")))
            ELSE /\ Await(send_async(gateway, "add", "AddPortMapping", ext, local),
                          "addport")
                 /\ UNCHANGED <<anyPort, strategy>>
    /\ UNCHANGED <<gateway, lastAnswer, all718, timerFailed, calls, searchVars, oneVars, docVars, textVars>>

\* add_port, the map_err on the reply to its AddPortMapping.
AddPortReplied(reply) ==
    /\ pc = "addport"
    /\ reply \in RepliesTo(inflight)
    /\ Answered(reply)
    /\ LET r == perform_request(reply, "unit") IN
       IF r.ok THEN Finish(Ok(NoPort))
       ELSE Finish(Err(convert_add_port_error(r)))
    /\ UNCHANGED <<gateway, call, timerFailed, calls, searchVars, oneVars, docVars, textVars>>

\* Gateway::get_external_ip, up to its await.
get_external_ip ==
    /\ pc = "idle"
    /\ calls < MaxCalls
    /\ call' = [op |-> "get_external_ip", ext |-> NoPort, local |-> NoPort, ip |-> NoIp]
    /\ Await(send_async(gateway, "ip", "GetExternalIPAddress", NoPort, NoPort), "ip")
    /\ UNCHANGED <<gateway, anyPort, strategy, lastAnswer, all718, timerFailed,
                   calls, searchVars, oneVars, docVars, textVars>>

\* get_external_ip, the then on the reply to its request.
ExternalIpReplied(reply) ==
    /\ pc = "ip"
    /\ reply \in RepliesTo(inflight)
    /\ Answered(reply)
    /\ LET r == perform_request(reply, "ip") IN
       IF r.ok THEN Finish(OkIp(r.val))
       ELSE Finish(Err(convert_get_external_ip_error(r)))
    /\ UNCHANGED <<gateway, call, timerFailed, calls, searchVars, oneVars, docVars, textVars>>

\* A bug the map_err could have: every error becomes ActionNotAuthorized.
get_any_address_error_all_606(e) == Named("ActionNotAuthorized")

\* get_any_address, the map_err on get_external_ip's error:
\* GetExternalIpError to AddAnyPortError.
get_any_address_error(e) ==
    IF e = Named("ActionNotAuthorized") THEN Named("ActionNotAuthorized")
    ELSE [tag |-> "RequestError", inner |-> e.inner, code |-> e.code,
          desc |-> e.desc, text |-> e.text]

\* Gateway::get_any_address, up to the await of its get_external_ip.
get_any_address(local) ==
    /\ pc = "idle"
    /\ calls < MaxCalls
    /\ call' = [op |-> "get_any_address", ext |-> NoPort, local |-> local, ip |-> NoIp]
    /\ Await(send_async(gateway, "ip", "GetExternalIPAddress", NoPort, NoPort), "anyip")
    /\ UNCHANGED <<gateway, anyPort, strategy, lastAnswer, all718, timerFailed,
                   calls, searchVars, oneVars, docVars, textVars>>

\* get_any_address, on the reply to GetExternalIPAddress: the error mapped
\* and returned, or add_any_port called with the address kept for the end.
AnyAddressIpReplied(reply) ==
    /\ pc = "anyip"
    /\ reply \in RepliesTo(inflight)
    /\ Answered(reply)
    /\ LET r == perform_request(reply, "ip") IN
       IF ~r.ok
       THEN /\ Finish(Err(get_any_address_error(convert_get_external_ip_error(r))))
            /\ UNCHANGED call
       ELSE /\ call' = [call EXCEPT !.ip = r.val]
            /\ IF internal_port_zero(call.local)
               THEN Finish(Err(Named("InternalPortZeroInvalid")))
               ELSE \E p \in SampleRange(PortLow, PortHigh) :
                       /\ anyPort' = p
                       /\ Await(send_async(gateway, "any", "AddAnyPortMapping",
                                           p, call.local), "any")
                       /\ UNCHANGED strategy
    /\ UNCHANGED <<gateway, timerFailed, calls, searchVars, oneVars, docVars, textVars>>

\* Gateway::remove_port, up to its await.
remove_port(ext) ==
    /\ pc = "idle"
    /\ calls < MaxCalls
    /\ call' = [op |-> "remove_port", ext |-> ext, local |-> NoPort, ip |-> NoIp]
    /\ Await(send_async(gateway, "remove", "DeletePortMapping", ext, NoPort), "remove")
    /\ UNCHANGED <<gateway, anyPort, strategy, lastAnswer, all718, timerFailed,
                   calls, searchVars, oneVars, docVars, textVars>>

\* remove_port, the map_err on the reply to its request.
RemovePortReplied(reply) ==
    /\ pc = "remove"
    /\ reply \in RepliesTo(inflight)
    /\ Answered(reply)
    /\ LET r == perform_request(reply, "unit") IN
       IF r.ok THEN Finish(Ok(NoPort))
       ELSE Finish(Err(convert_remove_port_error(r)))
    /\ UNCHANGED <<gateway, call, timerFailed, calls, searchVars, oneVars, docVars, textVars>>

\* The caller takes the result; the Gateway is ready for the next call.
Return ==
    /\ pc = "done"
    /\ pc' = "idle"
    /\ calls' = calls + 1
    /\ call' = NoCall
    /\ strategy' = 0
    /\ anyPort' = NoPort
    /\ inflight' = NoReq
    /\ lastReq' = NoReq
    /\ sent' = NoneSent
    /\ lastAnswer' = [reply |-> NoReply, to |-> "none"]
    /\ all718' = TRUE
    /\ timerFailed' = FALSE
    /\ result' = NoResult
    /\ UNCHANGED <<gateway, searchVars, oneVars, docVars, textVars>>

Next ==
    \/ \E local \in LocalPorts : add_any_port(local)
    \/ \E reply \in Replies : AnyReplied(reply)
    \/ \E reply \in Replies : RandomReplied(reply)
    \/ \E reply \in Replies : SameReplied(reply)
    \/ TimerFired
    \/ TimerError
    \/ \E ext \in ExternalPorts, local \in LocalPorts : add_port(ext, local)
    \/ \E reply \in Replies : AddPortReplied(reply)
    \/ get_external_ip
    \/ \E reply \in Replies : ExternalIpReplied(reply)
    \/ \E local \in LocalPorts : get_any_address(local)
    \/ \E reply \in Replies : AnyAddressIpReplied(reply)
    \/ \E ext \in ExternalPorts : remove_port(ext)
    \/ \E reply \in Replies : RemovePortReplied(reply)
    \/ Return

Spec == Init /\ [][Next]_vars

-----------------------------------------------------------------------------
(* The concurrent search: values.                                          *)

\* Addresses a LOCATION header can name, and hosts datagrams come from.
Addrs == {"10.0.0.1:5000", "10.0.0.138:80"}
Senders == {"10.0.0.1:1900", "10.0.0.138:1900"}

\* Paths of LOCATION URLs, as Url::path() returns them.
Paths == {"/rootDesc.xml"}

\* What a datagram holds:
\*   binary      bytes that are not UTF-8
\*   nolocation  text with no LOCATION line
\*   badurl      a LOCATION whose URL does not parse or whose host is no IPv4 address
\*   location    a LOCATION with the address and path given
Payload(kind, addr, path) == [kind |-> kind, addr |-> addr, path |-> path]

Payloads ==
    { Payload("binary", "", ""), Payload("nolocation", "", ""), Payload("badurl", "", "") }
    \cup { Payload("location", a, p) : a \in Addrs, p \in Paths }

\* What the socket delivers: a datagram from a sender, or a receive error.
Datagram(from, payload) == [kind |-> "datagram", from |-> from, payload |-> payload]
RecvError == [kind |-> "error", from |-> "", payload |-> Payload("", "", "")]

Datagrams == { Datagram(f, d) : f \in Senders, d \in Payloads }

\* Device descriptions a GET can return: one whose tree holds a matching
\* service with the control URL given, one with no matching service, and a
\* body that is no XML.
Body(kind, url) == [kind |-> kind, url |-> url]
Bodies ==
    { Body("match", "/ctl/IPConn"), Body("match", "/upnp/control/WANIPConn1"),
      Body("nomatch", ""), Body("notxml", "") }

\* The HTTP GET of a candidate: not issued, in flight, failed in transport,
\* or completed with a body.
Get(st, body) == [st |-> st, body |-> body]
NoGet == Get("none", Body("", ""))
GetInFlight == Get("inflight", Body("", ""))
GetFailed == Get("failed", Body("", ""))

\* A map that drops the entry of a candidate that has failed.
SearchState_forgets(st, url) ==
    IF st = "Error" THEN [st |-> "Absent", url |-> ""] ELSE [st |-> st, url |-> url]

\* SearchState, and the absence of a key.
SearchState(st, url) == [st |-> st, url |-> url]
Absent == SearchState("Absent", "")
Connecting == SearchState("Connecting", "")

\* Poll<Result<Gateway, SearchError>>
PollPending == [kind |-> "Pending", addr |-> "", control_url |-> "", err |-> ""]
ReadyOk(addr, url) == [kind |-> "Gateway", addr |-> addr, control_url |-> url, err |-> ""]
ReadyErr(e) == [kind |-> "Err", addr |-> "", control_url |-> "", err |-> e]

Result(ok, addr, path, err) == [ok |-> ok, addr |-> addr, path |-> path, err |-> err]

\* All orders a HashMap of the given keys can be iterated in.
Orders(keys) ==
    { o \in [1..Cardinality(keys) -> keys] :
        \A i, j \in 1..Cardinality(keys) : o[i] = o[j] => i = j }

-----------------------------------------------------------------------------
(* The concurrent search: SearchFuture's functions.                        *)

\* parsing::parse_search_result on the classes of text
parse_search_result(payload) ==
    IF payload.kind = "location"
    THEN Result(TRUE, payload.addr, payload.path, "")
    ELSE Result(FALSE, "", "", "InvalidResponse")

\* A search that takes the candidate's address from the host the datagram
\* came from.
handle_broadcast_resp_sender(from, payload) ==
    IF payload.kind = "location"
    THEN Result(TRUE, IF from = "10.0.0.1:1900" THEN "10.0.0.1:5000" ELSE "10.0.0.138:80",
                payload.path, "")
    ELSE Result(FALSE, "", "", "InvalidResponse")

\* SearchFuture::handle_broadcast_resp
handle_broadcast_resp(from, payload) ==
    IF payload.kind = "binary"
    THEN Result(FALSE, "", "", "Utf8Error")
    ELSE parse_search_result(payload)

\* SearchFuture::request_control_url: the URL http://<addr><path> parsed as
\* a URI (a UriError becomes SearchError::HttpError), then the GET issued.
request_control_url(addr, path) ==
    IF path \in Paths
    THEN Result(TRUE, addr, path, "")
    ELSE Result(FALSE, "", "", "HttpError")

\* A search that keeps one control URL for all its candidates: a candidate
\* gets the URL of another candidate's description when one has arrived.
handle_control_resp_shared(addr, body) ==
    LET others == {b \in Addrs \ {addr} : fetch[b].st = "body" /\ fetch[b].body.kind = "match"}
    IN  CASE body.kind = "match" ->
               Result(TRUE, addr,
                      IF others = {} THEN body.url
                      ELSE fetch[CHOOSE b \in others : TRUE].body.url, "")
          [] body.kind = "nomatch" -> Result(FALSE, "", "", "InvalidResponse")
          [] OTHER -> Result(FALSE, "", "", "XmlError")

\* SearchFuture::handle_control_resp, through parsing::parse_control_url
handle_control_resp(addr, body) ==
    CASE body.kind = "match" -> Result(TRUE, addr, body.url, "")
      [] body.kind = "nomatch" -> Result(FALSE, "", "", "InvalidResponse")
      [] OTHER -> Result(FALSE, "", "", "XmlError")

\* A map that never finds a key.
contains_key_never(map, addr) == FALSE

\* pending.contains_key(&addr)
contains_key(map, addr) == map[addr] # Absent

\* The keys of the map, as the for loop iterates them.
Keys(map) == {a \in Addrs : map[a] # Absent}

\* A bug the receive could have: a socket error is not looked at.
socket_error_ignored(ev) == FALSE

\* poll, "if let Poll::Ready(Err(err)) = resp".
socket_error(ev) == ev.kind = "error"

\* poll, its first half: one poll_recv_from and what is done with it.
\* Gives the map, the GETs and their count afterwards, what was read, and
\* whether poll returns here (ret) and what.
Receive ==
    LET unread == [pending |-> pending, fetch |-> fetch, fetchCount |-> fetchCount,
                   read |-> "nothing", from |-> "", addr |-> "", ret |-> FALSE,
                   out |-> PollPending]
    IN  IF sockQ = <<>> THEN unread
        ELSE LET ev == Head(sockQ) IN
             IF socket_error(ev)
             THEN [unread EXCEPT !.read = "error", !.ret = TRUE, !.out = ReadyErr("IoError")]
             ELSE LET h == handle_broadcast_resp(ev.from, ev.payload) IN
                  IF ~h.ok THEN [unread EXCEPT !.read = "malformed"]
                  ELSE IF contains_key(pending, h.addr)
                       THEN [unread EXCEPT !.read = "duplicate", !.from = ev.from,
                                           !.addr = h.addr]
                       ELSE LET f == request_control_url(h.addr, h.path) IN
                            IF f.ok
                            THEN [unread EXCEPT
                                    !.pending = [pending EXCEPT ![h.addr] = Connecting],
                                    !.fetch = [fetch EXCEPT ![h.addr] = GetInFlight],
                                    !.fetchCount = [fetchCount EXCEPT ![h.addr] = @ + 1],
                                    !.read = "new", !.from = ev.from, !.addr = h.addr]
                            ELSE [unread EXCEPT !.read = "new", !.from = ev.from,
                                    !.addr = h.addr,
                                    !.ret = TRUE, !.out = ReadyErr(f.err)]

\* A loop that marks a usable candidate Done and goes on, to return the last
\* Gateway it found.
RECURSIVE PollPendingRequests_GoesOn(_, _, _, _)
PollPendingRequests_GoesOn(order, i, map, gets) ==
    IF i > Len(order) THEN [pending |-> map, out |-> PollPending]
    ELSE LET addr == order[i] IN
         IF map[addr].st # "Connecting" \/ gets[addr].st = "inflight"
         THEN PollPendingRequests_GoesOn(order, i + 1, map, gets)
         ELSE IF gets[addr].st = "failed"
              THEN [pending |-> map, out |-> ReadyErr("HttpError")]
              ELSE IF gets[addr].body.kind = "match"
                   THEN LET done == [map EXCEPT ![addr] = SearchState("Done", gets[addr].body.url)]
                            rest == PollPendingRequests_GoesOn(order, i + 1, done, gets)
                        IN  IF rest.out.kind = "Pending"
                            THEN [pending |-> rest.pending,
                                  out |-> ReadyOk(addr, gets[addr].body.url)]
                            ELSE rest
                   ELSE PollPendingRequests_GoesOn(order, i + 1,
                            [map EXCEPT ![addr] = SearchState("Error", "")], gets)

\* poll, its second half: the loop over pending in the map's iteration
\* order, from position i on; gets are the GETs as the first half left
\* them.  A Connecting entry's future is polled: not ready, the loop goes
\* on; ready with an error, the ? returns it; ready with a body,
\* handle_control_resp decides between Done and the return of the Gateway,
\* and Error.
RECURSIVE PollPendingRequests(_, _, _, _)
PollPendingRequests(order, i, map, gets) ==
    IF i > Len(order) THEN [pending |-> map, out |-> PollPending]
    ELSE LET addr == order[i] IN
         IF map[addr].st # "Connecting" THEN PollPendingRequests(order, i + 1, map, gets)
         ELSE CASE gets[addr].st = "inflight" -> PollPendingRequests(order, i + 1, map, gets)
                [] gets[addr].st = "failed" -> [pending |-> map, out |-> ReadyErr("HttpError")]
                [] OTHER ->
                     LET c == handle_control_resp(addr, gets[addr].body) IN
                     IF c.ok
                     THEN [pending |-> [map EXCEPT ![addr] = SearchState("Done", c.path)],
                           out |-> ReadyOk(addr, c.path)]
                     ELSE PollPendingRequests(order, i + 1,
                                              [map EXCEPT ![addr] = SearchState("Error", "")], gets)

-----------------------------------------------------------------------------
(* The concurrent search as a state machine.  The network delivers         *)
(* datagrams and completes GETs; the executor polls the SearchFuture; the  *)
(* timer of search_gateway ends the search.                                *)

\* The negotiator's variables while the search runs.
GatewayUnused ==
    /\ gateway = <<>>
    /\ pc = "unused"
    /\ call = NoCall
    /\ strategy = 0
    /\ anyPort = NoPort
    /\ inflight = NoReq
    /\ lastReq = NoReq
    /\ sent = NoneSent
    /\ lastAnswer = [reply |-> NoReply, to |-> "none"]
    /\ all718 = TRUE
    /\ timerFailed = FALSE
    /\ result = NoResult
    /\ calls = 0

NoPoll == [read |-> "none", from |-> "", addr |-> "", order |-> <<>>, late |-> FALSE]

\* search_gateway, after SearchFuture::search has sent the request.
InitSearch ==
    /\ options \in {[timeout |-> t] : t \in BOOLEAN}
    /\ sockQ = <<>>
    /\ arrived = 0
    /\ pending = [a \in Addrs |-> Absent]
    /\ fetch = [a \in Addrs |-> NoGet]
    /\ fetchCount = [a \in Addrs |-> 0]
    /\ lastPoll = NoPoll
    /\ outcome = PollPending
    /\ task = <<>>
    /\ deadline = FALSE
    /\ doc = <<>>
    /\ resolved = <<>>
    /\ parser = "none"
    /\ text = <<>>
    /\ parsed = <<>>
    /\ GatewayUnused

\* The socket receives a datagram.
DatagramArrives(d) ==
    /\ outcome = PollPending
    /\ arrived < MaxDatagrams
    /\ sockQ' = Append(sockQ, d)
    /\ arrived' = arrived + 1
    /\ UNCHANGED <<options, pending, fetch, fetchCount, lastPoll, outcome, gwVars, oneVars, docVars, textVars>>

\* The socket's receive fails.
SocketFails ==
    /\ outcome = PollPending
    /\ arrived < MaxDatagrams
    /\ sockQ' = Append(sockQ, RecvError)
    /\ arrived' = arrived + 1
    /\ UNCHANGED <<options, pending, fetch, fetchCount, lastPoll, outcome, gwVars, oneVars, docVars, textVars>>

\* The GET issued for addr completes with a body.
GetCompletes(addr, body) ==
    /\ fetch[addr].st = "inflight"
    /\ fetch' = [fetch EXCEPT ![addr] = Get("body", body)]
    /\ UNCHANGED <<options, sockQ, arrived, pending, fetchCount, lastPoll, outcome, gwVars, oneVars, docVars, textVars>>

\* The GET issued for addr fails (connection refused, reset, ...).
GetFails(addr) ==
    /\ fetch[addr].st = "inflight"
    /\ fetch' = [fetch EXCEPT ![addr] = GetFailed]
    /\ UNCHANGED <<options, sockQ, arrived, pending, fetchCount, lastPoll, outcome, gwVars, oneVars, docVars, textVars>>

\* A timer that never ends the search.
elapsed_never(out) == out

\* tokio's Timeout, polled after its delay has elapsed: the result of the
\* inner future when that is ready, else Elapsed, which search_gateway's ?
\* converts into SearchError::IoError(TimedOut).
elapsed(out) == IF out = PollPending THEN ReadyErr("TimedOut") ELSE out

\* impl Future for SearchFuture: one call of poll, made when the delay of
\* search_gateway's timeout has elapsed (late) or before.
SearchFuture_poll(late) ==
    LET r == Receive IN
    /\ sockQ' = IF sockQ = <<>> THEN sockQ ELSE Tail(sockQ)
    /\ fetch' = r.fetch
    /\ fetchCount' = r.fetchCount
    /\ IF r.ret
       THEN /\ pending' = r.pending
            /\ outcome' = r.out
            /\ lastPoll' = [read |-> r.read, from |-> r.from, addr |-> r.addr, order |-> <<>>,
                            late |-> late]
       ELSE \E order \in Orders(Keys(r.pending)) :
               LET s == PollPendingRequests(order, 1, r.pending, r.fetch) IN
               /\ pending' = s.pending
               /\ outcome' = IF late THEN elapsed(s.out) ELSE s.out
               /\ lastPoll' = [read |-> r.read, from |-> r.from, addr |-> r.addr, order |-> order,
                               late |-> late]

\* The executor polls the search before the timeout, if any, has elapsed.
Poll ==
    /\ outcome = PollPending
    /\ SearchFuture_poll(FALSE)
    /\ UNCHANGED <<options, arrived, gwVars, oneVars, docVars, textVars>>

\* search_gateway: the timeout has elapsed; Timeout polls the SearchFuture
\* a last time and ends the search if that is still pending.
TimeoutElapses ==
    /\ outcome = PollPending
    /\ options.timeout
    /\ SearchFuture_poll(TRUE)
    /\ UNCHANGED <<options, arrived, gwVars, oneVars, docVars, textVars>>

NextSearch ==
    \/ \E d \in Datagrams : DatagramArrives(d)
    \/ SocketFails
    \/ \E a \in Addrs, b \in Bodies : GetCompletes(a, b)
    \/ \E a \in Addrs : GetFails(a)
    \/ Poll
    \/ TimeoutElapses

SpecSearch == InitSearch /\ [][NextSearch]_vars

\* The timer of a configured timeout does fire.
SpecSearchFair == SpecSearch /\ WF_vars(TimeoutElapses)

-----------------------------------------------------------------------------
(* The one-datagram searches: search_gateway_from_timeout of search.rs,    *)
(* which blocks its thread, and of async/search.rs, a chain of futures     *)
(* under tokio_timer's Timeout.  Both send the request, receive one        *)
(* datagram, and fetch the description the datagram names.                 *)

Variants == {"blocking", "async"}

\* A LOCATION whose dotted address has an octet above 255: the regular
\* expression of parse_result matches it, Ipv4Addr's parser does not.
Overflow == Payload("overflow", "", "")
OverflowDatagrams == { Datagram(f, Overflow) : f \in Senders }

\* The thread of the search has panicked.
Panicked == [kind |-> "Panic", addr |-> "", control_url |-> "", err |-> ""]

\* parse_result: Some(location) for a line the regular expression matches,
\* None when no line matches, a panic in unwrap() when the address it
\* matched is no Ipv4Addr.
parse_result(payload) ==
    CASE payload.kind = "location" -> Result(TRUE, payload.addr, payload.path, "")
      [] payload.kind = "overflow" -> Result(FALSE, "", "", "panic")
      [] OTHER -> Result(FALSE, "", "", "InvalidResponse")

\* What the search does with the datagram or error it received: the result
\* it ends with, or PollPending when it goes on to get_control_url.
received(ev) ==
    IF ev.kind = "error" THEN ReadyErr("IoError")
    ELSE IF ev.payload.kind = "binary" THEN ReadyErr("Utf8Error")
    ELSE LET location == parse_result(ev.payload) IN
         IF location.ok THEN PollPending
         ELSE IF location.err = "panic" THEN Panicked
         ELSE ReadyErr(location.err)

\* get_control_url, once its GET has ended: parse_control_url of the body,
\* or the transport error.
get_control_url(addr, get) ==
    IF get.st = "failed" THEN ReadyErr("HttpError")
    ELSE CASE get.body.kind = "match" -> ReadyOk(addr, get.body.url)
           [] get.body.kind = "nomatch" -> ReadyErr("InvalidResponse")
           [] OTHER -> ReadyErr("XmlError")

\* search_gateway_from_timeout, after the request was sent.
InitOneShot ==
    /\ task \in {[variant |-> v, stage |-> "recv", addr |-> ""] : v \in Variants}
    /\ deadline = FALSE
    /\ doc = <<>>
    /\ resolved = <<>>
    /\ parser = "none"
    /\ text = <<>>
    /\ parsed = <<>>
    /\ options = [timeout |-> TRUE]
    /\ sockQ = <<>>
    /\ arrived = 0
    /\ pending = [a \in Addrs |-> Absent]
    /\ fetch = [a \in Addrs |-> NoGet]
    /\ fetchCount = [a \in Addrs |-> 0]
    /\ lastPoll = NoPoll
    /\ outcome = PollPending
    /\ GatewayUnused

\* recv_from / recv_dgram returns, and the search handles what it read up
\* to the GET of get_control_url.
RecvFrom ==
    /\ outcome = PollPending
    /\ task.stage = "recv"
    /\ sockQ # <<>>
    /\ sockQ' = Tail(sockQ)
    /\ LET ev == Head(sockQ)
           out == received(ev)
       IN  /\ outcome' = out
           /\ IF out = PollPending
              THEN /\ task' = [task EXCEPT !.stage = "fetch", !.addr = ev.payload.addr]
                   /\ fetch' = [fetch EXCEPT ![ev.payload.addr] = GetInFlight]
                   /\ fetchCount' = [fetchCount EXCEPT ![ev.payload.addr] = @ + 1]
              ELSE UNCHANGED <<task, fetch, fetchCount>>
    /\ UNCHANGED <<options, arrived, pending, lastPoll, deadline, gwVars, docVars, textVars>>

\* The GET of get_control_url has ended, and the search ends with its result.
ControlUrlFetched ==
    /\ outcome = PollPending
    /\ task.stage = "fetch"
    /\ fetch[task.addr].st # "inflight"
    /\ outcome' = get_control_url(task.addr, fetch[task.addr])
    /\ UNCHANGED <<options, sockQ, arrived, pending, fetch, fetchCount, lastPoll,
                   oneVars, gwVars, docVars, textVars>>

\* The blocking search: the timeout passes while recv_from waits, which
\* set_read_timeout makes return an error (of kind WouldBlock or TimedOut).
ReadTimeout ==
    /\ outcome = PollPending
    /\ task.variant = "blocking"
    /\ task.stage = "recv"
    /\ sockQ = <<>>
    /\ ~deadline
    /\ deadline' = TRUE
    /\ outcome' = ReadyErr("TimedOut")
    /\ UNCHANGED <<options, sockQ, arrived, pending, fetch, fetchCount, lastPoll,
                   task, gwVars, docVars, textVars>>

\* The blocking search: the timeout passes while the thread is not in
\* recv_from.  core.run of get_control_url has no timeout.
DurationPasses ==
    /\ outcome = PollPending
    /\ task.variant = "blocking"
    /\ ~(task.stage = "recv" /\ sockQ = <<>>)
    /\ ~deadline
    /\ deadline' = TRUE
    /\ UNCHANGED <<searchVars, task, gwVars, docVars, textVars>>

\* The task of the search can go on: what it waits for has come.
TaskReady ==
    \/ task.stage = "recv" /\ sockQ # <<>>
    \/ task.stage = "fetch" /\ fetch[task.addr].st # "inflight"

\* The asynchronous search: Timer::timeout(task, timeout).  Timeout polls
\* the task first, and resolves to TimeoutError, which is converted into
\* SearchError::IoError(TimedOut), when the task is not ready.
TimerTimeout ==
    /\ outcome = PollPending
    /\ task.variant = "async"
    /\ ~TaskReady
    /\ ~deadline
    /\ deadline' = TRUE
    /\ outcome' = ReadyErr("TimedOut")
    /\ UNCHANGED <<options, sockQ, arrived, pending, fetch, fetchCount, lastPoll,
                   task, gwVars, docVars, textVars>>

NextOneShot ==
    \/ \E d \in Datagrams \cup OverflowDatagrams : DatagramArrives(d)
    \/ SocketFails
    \/ \E a \in Addrs, b \in Bodies : GetCompletes(a, b)
    \/ \E a \in Addrs : GetFails(a)
    \/ RecvFrom
    \/ ControlUrlFetched
    \/ ReadTimeout
    \/ DurationPasses
    \/ TimerTimeout

SpecOneShot == InitOneShot /\ [][NextOneShot]_vars

-----------------------------------------------------------------------------
(* The device tree resolver: parsing::parse_control_url on the element     *)
(* tree xmltree builds from a device description.                          *)

\* Devices a description holds at most.
MaxDevices == 3

\* Option<T>
Some(v) == [some |-> TRUE, v |-> v]
None == [some |-> FALSE, v |-> <<>>]

\* Element::text of an element with no character data
NoText == [some |-> FALSE, v |-> ""]

WANIPConnection == "urn:schemas-upnp-org:service:WANIPConnection:1"
WANPPPConnection == "urn:schemas-upnp-org:service:WANPPPConnection:1"
Layer3Forwarding == "urn:schemas-upnp-org:service:Layer3Forwarding:1"
WANCommonInterfaceConfig == "urn:schemas-upnp-org:service:WANCommonInterfaceConfig:1"

\* A <service> element: the text of its serviceType and of its controlURL.
Service(type, url) == [serviceType |-> type, controlURL |-> url]

IPConn == Service(WANIPConnection, Some("/ctl/IPConn"))
PPPConn == Service(WANPPPConnection, Some("/ctl/PPPConn"))
L3F == Service(Layer3Forwarding, Some("/ctl/L3F"))
CmnIfCfg == Service(WANCommonInterfaceConfig, Some("/ctl/CmnIfCfg"))
IPConnNoURL == Service(WANIPConnection, NoText)

\* A controlURL whose text is the empty string: xmltree stores the text of
\* a CDATA section as it does character data, and <![CDATA[]]> has none.
IPConnEmptyURL == Service(WANIPConnection, Some(""))

Services == {IPConn, PPPConn, L3F, CmnIfCfg, IPConnNoURL, IPConnEmptyURL}

\* What get_child("serviceList") gives for a device: no such element, or
\* its children: none, one service, the two connection services in
\* either order, or a connection service after one with no control URL.
ServiceLists ==
    {None, Some(<<>>), Some(<<IPConn, PPPConn>>), Some(<<PPPConn, IPConn>>),
     Some(<<IPConnNoURL, PPPConn>>)}
    \cup { Some(<<s>>) : s \in Services }

\* A <device> element as the description has it: how deep it is nested,
\* its serviceList, and whether it has a deviceList element.
Elem(depth, services, devices) ==
    [depth |-> depth, serviceList |-> services, deviceList |-> devices]

\* Every device but the first is nested in the deviceList of the last
\* element one level up.
WellNested(d) ==
    \A i \in 2..Len(d) :
        \E j \in 1..(i - 1) :
            /\ d[j].depth = d[i].depth - 1
            /\ d[j].deviceList
            /\ \A k \in (j + 1)..(i - 1) : d[k].depth >= d[i].depth

\* The descriptions of n devices, as their device elements in document
\* order, the first being the device of the root element.
RECURSIVE DescriptionsOf(_)
DescriptionsOf(n) ==
    IF n = 1 THEN { <<Elem(1, sl, dl)>> : sl \in ServiceLists, dl \in BOOLEAN }
    ELSE { d \in { Append(p, Elem(depth, sl, dl)) :
                     p \in DescriptionsOf(n - 1), depth \in 2..n,
                     sl \in ServiceLists, dl \in BOOLEAN } :
             WellNested(d) }

\* The body given to the resolver: whether it is XML, and the devices of
\* its description.
Body_xml(xml, devices) == [xml |-> xml, devices |-> devices]

\* The indices of a set, in increasing order.
RECURSIVE InOrder(_)
InOrder(indices) ==
    IF indices = {} THEN <<>>
    ELSE LET first == CHOOSE i \in indices : \A j \in indices : i <= j
         IN  <<first>> \o InOrder(indices \ {first})

\* The elements nested directly in the deviceList of the i-th.
ChildrenOf(d, i) ==
    { j \in (i + 1)..Len(d) :
        /\ d[j].depth = d[i].depth + 1
        /\ \A k \in (i + 1)..j : d[k].depth > d[i].depth }

\* A <device> element of the tree: what get_child gives for its two lists.
Device(services, devices) == [serviceList |-> services, deviceList |-> devices]

\* Element::parse, for the device element that is the i-th of the description.
RECURSIVE DeviceAt(_, _)
DeviceAt(d, i) ==
    Device(d[i].serviceList,
           IF d[i].deviceList
           THEN LET children == InOrder(ChildrenOf(d, i))
                IN  Some([c \in DOMAIN children |-> DeviceAt(d, children[c])])
           ELSE None)

\* Element::parse of the body, and root.get_child("device").
Document(xml, device) == [xml |-> xml, device |-> device]
Element_parse(body) ==
    Document(body.xml,
             IF body.devices = <<>> THEN None ELSE Some(DeviceAt(body.devices, 1)))

\* Result<String, SearchError>, and parse_control_url not called yet
NotCalled == [ok |-> FALSE, url |-> "", err |-> "not called"]
Resolved(url) == [ok |-> TRUE, url |-> url, err |-> ""]
Unresolved(e) == [ok |-> FALSE, url |-> "", err |-> e]

\* A resolver that takes a service of any type.
wan_connection_any(service_type) == TRUE

\* parse_control_url_scan_device, the test on the text of serviceType.
wan_connection(service_type) ==
    service_type = WANPPPConnection \/ service_type = WANIPConnection

\* parse_control_url_scan_device, "for service in &service_list.children":
\* the text of the controlURL of the first service of a connection type
\* that has one, from the i-th on.
RECURSIVE scan_services(_, _)
scan_services(services, i) ==
    IF i > Len(services) THEN Unresolved("InvalidResponse")
    ELSE IF wan_connection(services[i].serviceType) /\ services[i].controlURL.some
         THEN Resolved(services[i].controlURL.v)
         ELSE scan_services(services, i + 1)

\* parse_control_url_scan_device, and its loop over the sub-devices from
\* the i-th on, which goes past a sub-device that gave an error.
RECURSIVE parse_control_url_scan_device(_), scan_sub_devices(_, _)
parse_control_url_scan_device(device) ==
    IF ~device.serviceList.some THEN Unresolved("InvalidResponse")
    ELSE LET found == scan_services(device.serviceList.v, 1) IN
         IF found.ok THEN found
         ELSE IF ~device.deviceList.some THEN Unresolved("InvalidResponse")
         ELSE scan_sub_devices(device.deviceList.v, 1)

scan_sub_devices(devices, i) ==
    IF i > Len(devices) THEN Unresolved("InvalidResponse")
    ELSE LET found == parse_control_url_scan_device(devices[i]) IN
         IF found.ok THEN found
         ELSE scan_sub_devices(devices, i + 1)

\* parsing::parse_control_url, after Element::parse
parse_control_url(body) ==
    IF ~body.xml THEN Unresolved("XmlError")
    ELSE IF ~body.device.some THEN Unresolved("InvalidResponse")
    ELSE LET found == parse_control_url_scan_device(body.device.v) IN
         IF found.ok THEN found
         ELSE Unresolved("InvalidResponse")

\* The services of the description in document order, from the i-th device
\* element on, a device's serviceList standing before its deviceList.
RECURSIVE ServicesInOrder(_, _)
ServicesInOrder(d, i) ==
    IF i > Len(d) THEN <<>>
    ELSE (IF d[i].serviceList.some THEN d[i].serviceList.v ELSE <<>>)
         \o ServicesInOrder(d, i + 1)

\* parse_control_url of async/search.rs, at the end of a service element:
\* the control_url it collected, "" when the element had no text, of the
\* first service of a connection type whose control_url is not empty.
RECURSIVE first_service(_, _)
first_service(services, i) ==
    IF i > Len(services) THEN Unresolved("InvalidResponse")
    ELSE LET control_url == IF services[i].controlURL.some
                            THEN services[i].controlURL.v ELSE ""
         IN  IF /\ wan_connection(services[i].serviceType)
                /\ control_url # ""
             THEN Resolved(control_url)
             ELSE first_service(services, i + 1)

\* parse_control_url of async/search.rs, which reads the body as a stream
\* of XML events.
parse_control_url_stream(body) ==
    IF ~body.xml THEN Unresolved("XmlError")
    ELSE first_service(ServicesInOrder(body.devices, 1), 1)

\* A description has been fetched: a body that is no XML, a root element
\* with no device child, or a root element with the devices of a description.
InitResolve ==
    /\ \/ doc \in { Body_xml(FALSE, <<>>), Body_xml(TRUE, <<>>) }
       \/ \E n \in 1..MaxDevices : \E d \in DescriptionsOf(n) : doc = Body_xml(TRUE, d)
    /\ resolved = NotCalled
    /\ parser = "none"
    /\ text = <<>>
    /\ parsed = <<>>
    /\ task = <<>>
    /\ deadline = FALSE
    /\ options = <<>>
    /\ sockQ = <<>>
    /\ arrived = 0
    /\ pending = <<>>
    /\ fetch = <<>>
    /\ fetchCount = <<>>
    /\ lastPoll = <<>>
    /\ outcome = <<>>
    /\ GatewayUnused

\* handle_control_resp gives the body to parsing::parse_control_url.
Resolve ==
    /\ resolved = NotCalled
    /\ resolved' = parse_control_url(Element_parse(doc))
    /\ parser' = "tree"
    /\ UNCHANGED <<doc, gwVars, searchVars, oneVars, textVars>>

\* get_control_url of async/search.rs gives the body to its parse_control_url.
ResolveStream ==
    /\ resolved = NotCalled
    /\ resolved' = parse_control_url_stream(doc)
    /\ parser' = "stream"
    /\ UNCHANGED <<doc, gwVars, searchVars, oneVars, textVars>>

NextResolve ==
    \/ Resolve
    \/ ResolveStream

SpecResolve == InitResolve /\ [][NextResolve]_vars

-----------------------------------------------------------------------------
(* Claims on the negotiator, checked under Spec.                           *)

\* The reply is a fault of code c, whatever its description.
Fault(reply, c) == reply.kind = "fault" /\ reply.code = c

\* The reply handled last was a fault of code c to a request of kind to.
FaultTo(answer, c, to) == answer.to = to /\ Fault(answer.reply, c)

\* A request is issued in this step.
Issued == inflight' # NoReq /\ inflight' # inflight

\* A reply is handled in this step (every handler leaves its position).
Handled == pc \in {"any", "random", "same", "addport", "ip", "remove"} /\ pc' # pc

\* C1: in add_any_port, when AddAnyPortMapping was answered 401 and every
\* AddPortMapping is answered 718, exactly 20 AddPortMapping requests are
\* sent and the call then returns NoPortsAvailable; a 21st is never sent.
C1_TwentyAttempts ==
    (call.op = "add_any_port" /\ sent.random > 0 /\ all718 /\ ~timerFailed) =>
        /\ sent.random <= 20
        /\ pc = "done" =>
              /\ sent.random = 20
              /\ result = Err(Named("NoPortsAvailable"))

\* C2: in the fallback path, a random-port attempt answered 724 is followed
\* by exactly one request, AddPortMapping with the external port equal to
\* the internal port, whose outcome is the outcome of add_any_port; no
\* random-port attempt follows it, whatever budget remains and whatever it
\* is answered, 718 included.
C2_SamePortState ==
    /\ sent.same <= 1
    /\ pc = "same" =>
          /\ FaultTo(lastAnswer, 724, "random")
          /\ inflight.action = "AddPortMapping"
          /\ inflight.ext = call.local
          /\ inflight.local = call.local
    /\ (sent.same = 1 /\ pc # "same") =>
          /\ pc = "done"
          /\ inflight = NoReq
          /\ lastAnswer.to = "same"
          /\ lastAnswer.reply.kind = "success" =>
                result = [Ok(call.local) EXCEPT !.ip = call.ip]
          /\ lastAnswer.reply.kind # "success" => ~result.ok
          /\ Fault(lastAnswer.reply, 718) =>
                result = Err(Named("ExternalPortInUse"))

C2_SamePortStep ==
    /\ (Handled /\ pc = "random" /\ Fault(lastAnswer'.reply, 724)) =>
          (pc' = "same" /\ inflight'.kind = "same" /\ strategy' = strategy)
    /\ (sent.same = 1 /\ call' = call) =>
          (sent' = sent /\ (Handled => pc' = "done"))

C2_SamePortSingleShot == []C2_SamePortState /\ [][C2_SamePortStep]_vars

\* C2's case: the same-port request was answered 718 with budget left, and
\* the call ended with ExternalPortInUse.
C2_Witness ==
    /\ pc = "done"
    /\ sent.same = 1
    /\ strategy > 0
    /\ FaultTo(lastAnswer, 718, "same")
    /\ result = Err(Named("ExternalPortInUse"))

\* C6 as stated: add_port with external port 0 fails with
\* ExternalPortZeroInvalid, and add_port or add_any_port with internal port
\* 0 fails with InternalPortZeroInvalid; no request is sent.
C6_AsStated ==
    /\ (call.op = "add_port" /\ call.ext = 0) =>
          /\ pc = "done" /\ result = Err(Named("ExternalPortZeroInvalid"))
          /\ sent = NoneSent /\ lastReq = NoReq
    /\ (call.op \in {"add_port", "add_any_port"} /\ call.local = 0) =>
          /\ pc = "done" /\ result = Err(Named("InternalPortZeroInvalid"))
          /\ sent = NoneSent /\ lastReq = NoReq

\* C6, amended: add_port with external port 0 fails with
\* ExternalPortZeroInvalid (whatever the internal port); add_port with a
\* non-zero external port and internal port 0, and add_any_port with
\* internal port 0, fail with InternalPortZeroInvalid; no request is sent.
C6_PortZeroRejected ==
    /\ (call.op = "add_port" /\ call.ext = 0) =>
          /\ pc = "done" /\ result = Err(Named("ExternalPortZeroInvalid"))
          /\ sent = NoneSent /\ lastReq = NoReq
    /\ (call.op = "add_port" /\ call.ext # 0 /\ call.local = 0) =>
          /\ pc = "done" /\ result = Err(Named("InternalPortZeroInvalid"))
          /\ sent = NoneSent /\ lastReq = NoReq
    /\ (call.op = "add_any_port" /\ call.local = 0) =>
          /\ pc = "done" /\ result = Err(Named("InternalPortZeroInvalid"))
          /\ sent = NoneSent /\ lastReq = NoReq

\* C6's case: add_any_port was called with internal port 0 on a Gateway
\* whose URL is usable, and failed.
C6_Witness ==
    /\ pc = "done"
    /\ call = [op |-> "add_any_port", ext |-> NoPort, local |-> 0, ip |-> NoIp]
    /\ UriParses(GatewayUrl(gateway))
    /\ result = Err(Named("InternalPortZeroInvalid"))

\* C7: in add_any_port an AddPortMapping request is sent only after
\* AddAnyPortMapping was answered 401, a further random-port one only after
\* the previous one was answered 718, the same-port one only after a
\* random-port attempt was answered 724; any other error code, at any step,
\* ends the call with no further request.
C7_Step ==
    call'.op = "add_any_port" =>
        /\ (Issued /\ inflight'.kind = "any") => pc = "idle"
        /\ (Issued /\ inflight'.kind = "random") =>
              \/ FaultTo(lastAnswer', 401, "any")
              \/ FaultTo(lastAnswer', 718, "random")
        /\ (Issued /\ inflight'.kind = "same") =>
              FaultTo(lastAnswer', 724, "random")
        /\ ( /\ Handled
             /\ lastAnswer'.reply.kind = "fault"
             /\ ~(pc = "any" /\ lastAnswer'.reply.code = 401)
             /\ ~(pc = "random" /\ lastAnswer'.reply.code \in {718, 724}) ) =>
              (pc' = "done" /\ inflight' = NoReq /\ ~result'.ok /\ sent' = sent)

C7_OnlyThreeCodesContinue == [][C7_Step]_vars

\* C7's case: in the middle of the retries an attempt was answered 606 and
\* the call ended.
C7_Witness ==
    /\ pc = "done"
    /\ call.op = "add_any_port"
    /\ sent.random = 2
    /\ strategy > 0
    /\ FaultTo(lastAnswer, 606, "random")
    /\ result = Err(Named("ActionNotAuthorized"))

\* C8: when AddAnyPortMapping is answered 401 and the k-th AddPortMapping
\* attempt (k <= 20) is the first to succeed, the earlier ones having been
\* answered 718, add_any_port returns the port sent in that attempt and
\* sends no request after it.
C8_ReturnsSucceedingCandidate ==
    ( /\ call.op = "add_any_port"
      /\ lastAnswer.to = "random"
      /\ lastAnswer.reply.kind = "success"
      /\ sent.random \in 1..20 ) =>
        /\ pc = "done"
        /\ inflight = NoReq
        /\ lastReq.kind = "random"
        /\ result = Ok(lastReq.ext)
        /\ sent.same = 0 /\ sent.any = 1

\* C8's case: the third attempt succeeded with a port other than the first
\* candidate of the call.
C8_Witness ==
    /\ pc = "done"
    /\ sent.random = 3
    /\ lastAnswer.to = "random"
    /\ lastAnswer.reply.kind = "success"
    /\ lastReq.ext # anyPort
    /\ result = Ok(lastReq.ext)

\* C9: when the gateway accepts AddAnyPortMapping, add_any_port returns the
\* response's NewReservedPort, also when it is not the candidate sent, and
\* exactly one request is sent (no AddPortMapping).
C9_ReturnsReservedPort ==
    ( /\ call.op = "add_any_port"
      /\ lastAnswer.to = "any"
      /\ lastAnswer.reply.kind = "success"
      /\ lastAnswer.reply.port # NoPort ) =>
        /\ pc = "done"
        /\ inflight = NoReq
        /\ result = Ok(lastAnswer.reply.port)
        /\ sent = [NoneSent EXCEPT !.any = 1]
        /\ lastReq.action = "AddAnyPortMapping"

\* C9's case: the gateway reserved a port other than the candidate.
C9_Witness ==
    /\ pc = "done"
    /\ lastAnswer.to = "any"
    /\ lastAnswer.reply.kind = "success"
    /\ lastAnswer.reply.port # NoPort
    /\ lastAnswer.reply.port # anyPort
    /\ lastReq.ext = anyPort
    /\ result = Ok(lastAnswer.reply.port)

\* C10: when AddAnyPortMapping is answered 605, 606 or 728, add_any_port
\* ends with DescriptionTooLong, ActionNotAuthorized or NoPortsAvailable
\* respectively, and the AddPortMapping fallback is not started.
C10_TerminalAnyErrors ==
    \A c \in {605, 606, 728} :
        (call.op = "add_any_port" /\ FaultTo(lastAnswer, c, "any")) =>
            /\ pc = "done"
            /\ inflight = NoReq
            /\ lastReq.kind = "any"
            /\ sent = [NoneSent EXCEPT !.any = 1]
            /\ result = Err(Named(CASE c = 605 -> "DescriptionTooLong"
                                    [] c = 606 -> "ActionNotAuthorized"
                                    [] c = 728 -> "NoPortsAvailable"))

\* C10's case: AddAnyPortMapping was answered 728.
C10_Witness ==
    /\ pc = "done"
    /\ FaultTo(lastAnswer, 728, "any")
    /\ result = Err(Named("NoPortsAvailable"))
    /\ sent.random = 0

\* C11: in the fallback path, an AddPortMapping attempt answered 605, 606 or
\* 725 ends the call at once with DescriptionTooLong, ActionNotAuthorized or
\* OnlyPermanentLeasesSupported respectively; no retry with another port
\* follows, whatever retry budget remains.
C11_TerminalRandomErrors ==
    \A c \in {605, 606, 725} :
        ( /\ call.op = "add_any_port"
          /\ FaultTo(lastAnswer, c, "random") ) =>
            /\ pc = "done"
            /\ inflight = NoReq
            /\ lastReq.kind = "random"
            /\ sent.same = 0
            /\ result = Err(Named(CASE c = 605 -> "DescriptionTooLong"
                                    [] c = 606 -> "ActionNotAuthorized"
                                    [] c = 725 -> "OnlyPermanentLeasesSupported"))

\* C11's case: the second attempt was answered 725 with budget left, and
\* the call ended.
C11_Witness ==
    /\ pc = "done"
    /\ sent.random = 2
    /\ strategy > 0
    /\ FaultTo(lastAnswer, 725, "random")
    /\ result = Err(Named("OnlyPermanentLeasesSupported"))

\* C12: the same-port sub-step sends AddPortMapping with the external port
\* equal to the internal port; on success add_any_port returns the internal
\* port, on 606, 718 or 725 it returns ActionNotAuthorized,
\* ExternalPortInUse or OnlyPermanentLeasesSupported, and any other error
\* is returned as the wrapped request error.
C12_SamePortSubStep ==
    /\ (inflight.kind = "same" \/ lastReq.kind = "same") =>
          /\ lastReq.action = "AddPortMapping"
          /\ lastReq.ext = call.local
          /\ lastReq.local = call.local
    /\ lastAnswer.to = "same" =>
          LET a == lastAnswer.reply IN
          /\ pc = "done"
          /\ result =
               CASE a.kind = "success" -> [Ok(call.local) EXCEPT !.ip = call.ip]
                 [] Fault(a, 606) -> Err(Named("ActionNotAuthorized"))
                 [] Fault(a, 718) -> Err(Named("ExternalPortInUse"))
                 [] Fault(a, 725) -> Err(Named("OnlyPermanentLeasesSupported"))
                 [] a.kind = "fault" ->
                      Err([tag |-> "RequestError", inner |-> "ErrorCode",
                          code |-> a.code, desc |-> a.desc, text |-> NoReply])
                 [] a.kind = "invalid" ->
                      Err([tag |-> "RequestError", inner |-> "InvalidResponse",
                          code |-> 0, desc |-> "", text |-> a])
                 [] a.kind = "transport" ->
                      Err([tag |-> "RequestError", inner |-> "HttpError",
                          code |-> 0, desc |-> "", text |-> NoReply])

\* C12's case: the same-port request succeeded and the internal port, which
\* is none of the random candidates, was returned.
C12_Witness ==
    /\ pc = "done"
    /\ lastAnswer.to = "same"
    /\ lastAnswer.reply.kind = "success"
    /\ lastReq.ext = call.local
    /\ call.local # anyPort
    /\ result = Ok(call.local)

\* The error codes each step of each operation recognises.
Recognized(to) ==
    CASE to = "any" -> {401, 605, 606, 728}
      [] to = "random" -> {605, 606, 718, 724, 725}
      [] to = "same" -> {606, 718, 725}
      [] to = "add" -> {605, 606, 718, 724, 725}
      [] to = "ip" -> {606}
      [] to = "remove" -> {606, 714}
      [] OTHER -> {}

-----------------------------------------------------------------------------
(* Claims on the concurrent search, checked under SpecSearch.              *)

\* The GET for addr has completed with a description holding a usable
\* control URL.
Usable(addr) == fetch[addr].st = "body" /\ fetch[addr].body.kind = "match"

\* A step of poll, the last one that the elapsed timeout makes included:
\* the network's steps change arrived or complete a GET.
PollStep ==
    /\ outcome = PollPending
    /\ arrived' = arrived
    /\ \A a \in Addrs : fetch'[a] = fetch[a] \/ fetch[a] = NoGet

\* poll's loop took the entry of addr from Connecting to Done or Error on
\* a GET that had completed, or left it alone.
OnlyLoopTouched(addr) ==
    \/ pending'[addr] = pending[addr]
    \/ /\ pending[addr] = Connecting
       /\ fetch[addr].st # "inflight"
       /\ pending'[addr].st \in {"Done", "Error"}

\* C3 (state part): no address ever has more than one control-URL fetch
\* started for it.
C3_State == \A a \in Addrs : fetchCount[a] <= 1

\* C3 (step part): a poll that reads a datagram whose LOCATION names an
\* address already in the pending map starts no fetch, adds no key, and
\* changes no entry except as its fetch loop does for a completed GET.
C3_Step ==
    (/\ PollStep
     /\ sockQ # <<>>
     /\ Head(sockQ).kind = "datagram"
     /\ Head(sockQ).payload.kind = "location"
     /\ pending[Head(sockQ).payload.addr] # Absent)
    => /\ fetchCount' = fetchCount
       /\ fetch' = fetch
       /\ Keys(pending') = Keys(pending)
       /\ \A a \in Addrs : OnlyLoopTouched(a)

\* C3: in the concurrent search, for any sequence of SSDP responses, at most
\* one control-URL fetch is started for any one responder address: a
\* datagram for an address already in the pending map, in any state, starts
\* no fetch and leaves the map as it was.
C3_AtMostOneFetchPerAddress == []C3_State /\ [][C3_Step]_vars

\* C3 witness: poll has just dropped a duplicate for an address whose one
\* fetch had already failed to give a control URL, while another address
\* is still being fetched.
C3_Witness ==
    /\ lastPoll.read = "duplicate"
    /\ \E a \in Addrs :
         /\ lastPoll.addr = a
         /\ pending[a].st = "Error"
         /\ fetchCount[a] = 1
    /\ \E b \in Addrs : pending[b] = Connecting

\* C4 (state part): at most one candidate is ever Done, the search has
\* yielded a Gateway exactly when one is, and the Gateway is the Done
\* candidate's address with the control URL of the description fetched
\* from that address.
C4_State ==
    /\ Cardinality({a \in Addrs : pending[a].st = "Done"}) <= 1
    /\ \A a \in Addrs :
         pending[a].st = "Done" =>
            /\ Usable(a)
            /\ outcome = ReadyOk(a, fetch[a].body.url)
    /\ outcome.kind = "Gateway" => pending[outcome.addr].st = "Done"

\* C4 (step part): a poll never returns Pending over a candidate whose GET
\* has completed usably unless it has ended the search; a poll that ends
\* the search with a Gateway leaves every other candidate as it was; and
\* once the search has yielded a Gateway, neither the result nor the map
\* changes again, whatever GETs complete afterwards.
C4_Step ==
    /\ (PollStep /\ outcome' = PollPending) =>
          \A a \in Addrs : ~(pending[a] = Connecting /\ Usable(a))
    /\ (PollStep /\ outcome'.kind = "Gateway") =>
          \A b \in Addrs \ {outcome'.addr} :
             pending'[b] = pending[b] \/ pending'[b].st = "Error" \/ pending[b] = Absent
    /\ outcome.kind = "Gateway" => (outcome' = outcome /\ pending' = pending)

C5_FailedFetchContained ==
    /\ outcome # ReadyErr("HttpError")
    /\ \A a \in Addrs :
         pending[a].st = "Error" => (fetch[a].st \in {"failed", "body"} /\ ~Usable(a))

\* The datagram is malformed: no UTF-8, no LOCATION header, or a LOCATION
\* whose URL cannot be used.
Malformed(ev) ==
    ev.kind = "datagram" /\ ev.payload.kind \in {"binary", "nolocation", "badurl"}

\* C14 (step part): a poll that reads a malformed datagram starts no fetch
\* and adds no candidate.
C14_Step ==
    (PollStep /\ sockQ # <<>> /\ Malformed(Head(sockQ))) =>
        /\ fetchCount' = fetchCount
        /\ fetch' = fetch
        /\ Keys(pending') = Keys(pending)

\* C14 (state part): the search fails with the timeout or a socket error
\* only.
C14_State == outcome.kind = "Err" => outcome.err \in {"TimedOut", "IoError"}

\* C14: in the concurrent search, a malformed SSDP datagram never ends the
\* search with an error and starts no fetch; the search's only user-visible
\* failures are the timeout and a socket error.
C14_OnlyTimeoutAndSocketError == []C14_State /\ [][C14_Step]_vars

\* C15: a receive error on the search's UDP socket ends the search, in the
\* poll that receives it, with an I/O search error, whatever candidates are
\* in flight; no candidate is looked at in that poll.
C15_Step ==
    (PollStep /\ sockQ # <<>> /\ Head(sockQ).kind = "error") =>
        /\ outcome' = ReadyErr("IoError")
        /\ pending' = pending
        /\ fetch' = fetch

C15_SocketErrorEndsSearch == [][C15_Step]_vars

\* C15's case: the search ended with the I/O error while one candidate was
\* in flight and another one's GET had completed usably.
C15_Witness ==
    /\ outcome = ReadyErr("IoError")
    /\ lastPoll.read = "error"
    /\ \E a, b \in Addrs :
         /\ pending[a] = Connecting /\ fetch[a] = GetInFlight
         /\ pending[b] = Connecting /\ Usable(b)

\* C17 (step part): the poll made when the timeout has elapsed ends the
\* search with the timed-out I/O error when it finds nothing ready: no
\* socket error and no candidate whose GET has completed usably or failed.
\* Once the search has timed out, no candidate is polled again and no
\* Gateway is produced, whatever GETs complete later.
C17_Step ==
    /\ ( /\ PollStep
         /\ lastPoll'.late
         /\ sockQ = <<>> \/ Head(sockQ).kind # "error"
         /\ \A a \in Addrs :
               pending[a] = Connecting => (fetch[a].st # "failed" /\ ~Usable(a)) ) =>
          outcome' = ReadyErr("TimedOut")
    /\ outcome = ReadyErr("TimedOut") => (outcome' = outcome /\ pending' = pending)

-----------------------------------------------------------------------------
(* Claims on the one-datagram searches, checked under SpecOneShot.         *)

\* The control-URL fetch of the search is in flight.
FetchInFlight == task.stage = "fetch" /\ fetch[task.addr].st = "inflight"

\* C16: the timeout covers the whole discovery, the control-URL fetch
\* included: when the timeout has elapsed and the fetch is still in flight,
\* the search has ended with the timed-out error, in the blocking search
\* as in the asynchronous one.
C16_TimeoutCoversFetch ==
    (task # <<>> /\ deadline /\ FetchInFlight) => outcome = ReadyErr("TimedOut")

\* C18: the blocking search fails only when the socket read itself fails,
\* on the read timeout or a socket error: a datagram that does not parse,
\* or whose description cannot be fetched or resolved, does not end it.
C18_BlockingFailsOnlyOnRead ==
    (task # <<>> /\ task.variant = "blocking" /\ outcome.kind # "Pending")
        => \/ outcome.kind = "Gateway"
           \/ outcome \in {ReadyErr("TimedOut"), ReadyErr("IoError")}

-----------------------------------------------------------------------------
(* Claims on the device tree resolver, checked under SpecResolve.          *)

\* The sub-devices of a device, none when it has no deviceList.
SubDevices(device) == IF device.deviceList.some THEN device.deviceList.v ELSE <<>>

\* The services of a device, none when it has no serviceList.
ServicesOf(device) == IF device.serviceList.some THEN device.serviceList.v ELSE <<>>

\* The service has a control URL: a controlURL with text that is not empty.
HasControlURL(service) == service.controlURL.some /\ service.controlURL.v # ""

\* A service of a connection type that has a control URL.
Matching(service) ==
    /\ service.serviceType \in {WANIPConnection, WANPPPConnection}
    /\ HasControlURL(service)

\* The tree of the device holds a matching service.
RECURSIVE HasMatch(_)
HasMatch(device) ==
    \/ \E i \in DOMAIN ServicesOf(device) : Matching(ServicesOf(device)[i])
    \/ \E i \in DOMAIN SubDevices(device) : HasMatch(SubDevices(device)[i])

\* parse_control_url was given a description with a device, and returned.
Scanned == doc # <<>> /\ doc.xml /\ doc.devices # <<>> /\ resolved # NotCalled

\* The device of the root element.
RootDevice == Element_parse(doc).device.v

\* C19: a device with no serviceList has no services and its deviceList is
\* still searched, a device with no deviceList has no sub-devices:
\* resolution fails only when the whole tree holds no matching service.
C19_FailsOnlyOnExhaustion ==
    (Scanned /\ HasMatch(RootDevice)) => resolved.ok

\* How many services of the type the tree of the device holds.
RECURSIVE CountServices(_, _), CountInDevices(_, _, _)
CountServices(device, type) ==
    Cardinality({ i \in DOMAIN ServicesOf(device) : ServicesOf(device)[i].serviceType = type })
    + CountInDevices(SubDevices(device), 1, type)

CountInDevices(devices, i, type) ==
    IF i > Len(devices) THEN 0
    ELSE CountServices(devices[i], type) + CountInDevices(devices, i + 1, type)

\* How many levels of devices the tree of the device has.
RECURSIVE Levels(_), LevelsBelow(_, _)
Levels(device) == 1 + LevelsBelow(SubDevices(device), 1)

LevelsBelow(devices, i) ==
    IF i > Len(devices) THEN 0
    ELSE LET here == Levels(devices[i])
             rest == LevelsBelow(devices, i + 1)
         IN  IF here > rest THEN here ELSE rest

\* The levels, counted from the device, at which a device exposes a
\* WANIPConnection:1 service that has a control URL.
RECURSIVE ExposedAt(_)
ExposedAt(device) ==
    (IF \E i \in DOMAIN ServicesOf(device) :
            /\ ServicesOf(device)[i].serviceType = WANIPConnection
            /\ HasControlURL(ServicesOf(device)[i])
     THEN {1} ELSE {})
    \cup UNION { { l + 1 : l \in ExposedAt(SubDevices(device)[i]) }
                 : i \in DOMAIN SubDevices(device) }

\* Every device of the tree has a serviceList.
RECURSIVE ExposesServices(_)
ExposesServices(device) ==
    /\ device.serviceList.some
    /\ \A i \in DOMAIN SubDevices(device) : ExposesServices(SubDevices(device)[i])

\* The tree holds exactly one WANIPConnection:1 service, exposed with its
\* control URL by a device of the innermost level; every device exposes a
\* list of services, and but for that one they are of types the resolver
\* does not look for.
OneInnermostIPConnection(device) ==
    /\ CountServices(device, WANIPConnection) = 1
    /\ CountServices(device, WANPPPConnection) = 0
    /\ ExposedAt(device) = {Levels(device)}
    /\ ExposesServices(device)

\* The text of the controlURL of the WANIPConnection:1 services of the tree.
RECURSIVE IPControlURLs(_)
IPControlURLs(device) ==
    { ServicesOf(device)[i].controlURL.v :
        i \in { j \in DOMAIN ServicesOf(device) :
                  /\ ServicesOf(device)[j].serviceType = WANIPConnection
                  /\ HasControlURL(ServicesOf(device)[j]) } }
    \cup UNION { IPControlURLs(SubDevices(device)[i]) : i \in DOMAIN SubDevices(device) }

\* The resolver returned the control URL of the tree's WANIPConnection:1 service.
ReturnedIPControlURL ==
    resolved.ok /\ IPControlURLs(RootDevice) = {resolved.url}

test_parse_device1 ==
    << Elem(1, Some(<<L3F>>), TRUE),
       Elem(2, Some(<<CmnIfCfg>>), TRUE),
       Elem(3, Some(<<IPConn>>), FALSE) >>

RootServices == ServicesOf(RootDevice)

\* C21: when one serviceList holds both a WANIPConnection:1 service and a
\* WANPPPConnection:1 service, each with a control URL, the resolver
\* returns the control URL of the WANIPConnection:1 service, whatever the
\* order of the two in the document.
C21_PrefersIPConnection ==
    Scanned =>
        \A i, j \in DOMAIN RootServices :
            (/\ RootServices[i].serviceType = WANIPConnection
             /\ RootServices[j].serviceType = WANPPPConnection
             /\ HasControlURL(RootServices[i])
             /\ HasControlURL(RootServices[j]))
            => resolved = Resolved(RootServices[i].controlURL.v)

\* C22: a service of a matching type whose controlURL is empty is not a
\* match: the resolver never returns an empty control URL, and goes on to
\* the remaining services, returning the first that has a control URL.
C22_EmptyControlURLIsNoMatch ==
    Scanned =>
        /\ resolved.ok => resolved.url # ""
        /\ \A i \in DOMAIN RootServices :
              (/\ Matching(RootServices[i])
               /\ \A j \in 1..(i - 1) : ~Matching(RootServices[j]))
              => resolved = Resolved(RootServices[i].controlURL.v)


-----------------------------------------------------------------------------
(* The envelope parsers: parse_response of common/parsing.rs, which builds *)
(* the element tree of the text, and parse_response of async/gateway.rs,   *)
(* which reads the text as a stream of events.                             *)

\* The success element the caller expects.
ExpectedResponse == "AddPortMappingResponse"

\* What a gateway may put in errorCode (None: no such element).
ErrorCodeTexts ==
    {None, Some(<<>>), Some(<<"6", "0", "6">>), Some(<<"+", "7", "1", "8">>),
     Some(<<"0">>), Some(<<"a", "b", "c">>), Some(<<"6", "0", "6", " ">>),
     Some(<<"6", "5", "5", "3", "5">>), Some(<<"6", "5", "5", "3", "6">>)}

\* What a gateway may put in errorDescription (NoText: no such element).
ErrorDescriptionTexts == {NoText, Some(""), Some("Action not authorized")}

\* A response text:
\*   markup     FALSE when the text holds no XML at all
\*   prefixed   whether the elements of the envelope and the response
\*              element carry a namespace prefix (s:Body, s:Fault, u:...)
\*   body       whether the envelope has a Body
\*   ok         where the expected response element is: absent, a child of
\*              Body, or nested in another child of Body
\*   fault      how much of Fault / detail / UPnPError the Body holds
\*   faultFirst whether the Fault comes before the response element
ResponseText(markup, prefixed, body, ok, fault, faultFirst, code, description) ==
    [markup |-> markup, prefixed |-> prefixed, body |-> body, ok |-> ok,
     fault |-> fault, faultFirst |-> faultFirst, errorCode |-> code,
     errorDescription |-> description]

NotXml == ResponseText(FALSE, FALSE, FALSE, "absent", "absent", FALSE, None, NoText)

\* RequestError::InvalidResponse(text), RequestError::ErrorCode(code,
\* description), and the success of either parser.
Parsed(kind, code, description, body) ==
    [kind |-> kind, code |-> code, description |-> description, text |-> body]

\* A bug the parsers could have: the text is not kept in the error.
InvalidResponse_empty(body) == Parsed("InvalidResponse", 0, "", NotXml)

InvalidResponse(body) == Parsed("InvalidResponse", 0, "", body)
ErrorCode(code, description) == Parsed("ErrorCode", code, description, NotXml)
Success(body) == Parsed("Ok", 0, "", body)

\* common/parsing.rs parse_response. xmltree names an element by its local
\* name, get_child and take_child look among the direct children, and the
\* text of an element with no character data is None.
parse_response(body, ok) ==
    IF ~body.markup THEN InvalidResponse(body)
    ELSE IF ~body.body THEN InvalidResponse(body)
    ELSE IF body.ok = "child" THEN Success(body)
    ELSE IF body.fault # "UPnPError" THEN InvalidResponse(body)
    ELSE IF ~body.errorCode.some \/ ~body.errorDescription.some
         THEN InvalidResponse(body)
    ELSE IF body.errorCode.v = <<>> \/ body.errorDescription.v = ""
         THEN InvalidResponse(body)
    ELSE IF parse_u16(body.errorCode.v) = NotANumber THEN InvalidResponse(body)
    ELSE ErrorCode(parse_u16(body.errorCode.v), body.errorDescription.v)

\* The events quick_xml reads from a text: e.name() is the name as written,
\* prefix included.
Start(prefix, local) == [event |-> "Start", prefix |-> prefix, local |-> local]
End(prefix, local) == [event |-> "End", prefix |-> prefix, local |-> local]

EnvelopePrefix(body) == IF body.prefixed THEN "s" ELSE ""
ResponsePrefix(body) == IF body.prefixed THEN "u" ELSE ""

ResponseEvents(body, ok) ==
    CASE body.ok = "child" -> <<Start(ResponsePrefix(body), ok), End(ResponsePrefix(body), ok)>>
      [] body.ok = "nested" ->
            <<Start("", "Wrapper"), Start(ResponsePrefix(body), ok),
              End(ResponsePrefix(body), ok), End("", "Wrapper")>>
      [] OTHER -> <<>>

UPnPErrorEvents(body) ==
    <<Start("", "UPnPError")>>
    \o (IF body.errorCode.some THEN <<Start("", "errorCode")>> ELSE <<>>)
    \o (IF body.errorDescription.some THEN <<Start("", "errorDescription")>> ELSE <<>>)
    \o <<End("", "UPnPError")>>

FaultEvents(body) ==
    CASE body.fault = "Fault" ->
            <<Start(EnvelopePrefix(body), "Fault"), End(EnvelopePrefix(body), "Fault")>>
      [] body.fault = "detail" ->
            <<Start(EnvelopePrefix(body), "Fault"), Start("", "detail"),
              End("", "detail"), End(EnvelopePrefix(body), "Fault")>>
      [] body.fault = "UPnPError" ->
            <<Start(EnvelopePrefix(body), "Fault"), Start("", "detail")>>
            \o UPnPErrorEvents(body)
            \o <<End("", "detail"), End(EnvelopePrefix(body), "Fault")>>
      [] OTHER -> <<>>

\* Reader::from_str(&xml): the events of the text in document order; the
\* reader reports Eof after the last one.
Reader_from_str(body, ok) ==
    IF ~body.markup THEN <<>>
    ELSE <<Start(EnvelopePrefix(body), "Envelope")>>
         \o (IF ~body.body THEN <<>>
             ELSE <<Start(EnvelopePrefix(body), "Body")>>
                  \o (IF body.faultFirst
                      THEN FaultEvents(body) \o ResponseEvents(body, ok)
                      ELSE ResponseEvents(body, ok) \o FaultEvents(body))
                  \o <<End(EnvelopePrefix(body), "Body")>>)
         \o <<End(EnvelopePrefix(body), "Envelope")>>

\* e.name() == name
name_is(e, name) == e.prefix = "" /\ e.local = name

\* The inner loop of the streaming parse_response, entered at the start of
\* UPnPError with code 0 and an empty description. read_text gives the text
\* of the element, empty when it has none.
RECURSIVE read_UPnPError(_, _, _, _, _)
read_UPnPError(body, events, i, code, description) ==
    IF i > Len(events) THEN InvalidResponse(body)
    ELSE LET e == events[i] IN
         CASE e.event = "Start" /\ name_is(e, "errorDescription") ->
                read_UPnPError(body, events, i + 1, code, body.errorDescription.v)
           [] e.event = "Start" /\ name_is(e, "errorCode") ->
                IF parse_u16(body.errorCode.v) = NotANumber
                THEN InvalidResponse(body)
                ELSE read_UPnPError(body, events, i + 1,
                                    parse_u16(body.errorCode.v), description)
           [] e.event = "End" /\ name_is(e, "UPnPError") -> ErrorCode(code, description)
           [] OTHER -> read_UPnPError(body, events, i + 1, code, description)

\* The outer loop of the streaming parse_response: a state that advances on
\* the start of Body, Fault, detail and UPnPError, wherever they stand.
RECURSIVE read_event(_, _, _, _, _)
read_event(body, ok, events, i, state) ==
    IF i > Len(events) THEN InvalidResponse(body)
    ELSE LET e == events[i] IN
         IF e.event # "Start" THEN read_event(body, ok, events, i + 1, state)
         ELSE CASE state = "Body" /\ name_is(e, "Body") ->
                     read_event(body, ok, events, i + 1, "Fault")
                [] state = "Fault" /\ name_is(e, ok) -> Success(body)
                [] state = "Fault" /\ ~name_is(e, ok) /\ name_is(e, "Fault") ->
                     read_event(body, ok, events, i + 1, "Detail")
                [] state = "Detail" /\ name_is(e, "detail") ->
                     read_event(body, ok, events, i + 1, "UPnPError")
                [] state = "UPnPError" /\ name_is(e, "UPnPError") ->
                     read_UPnPError(body, events, i + 1, 0, "")
                [] OTHER -> read_event(body, ok, events, i + 1, state)

\* async/gateway.rs parse_response
parse_response_stream(body, ok) ==
    read_event(body, ok, Reader_from_str(body, ok), 1, "Body")

NotParsed == [by |-> "none", result |-> InvalidResponse(NotXml)]

InitEnvelope ==
    /\ \/ text = NotXml
       \/ \E prefixed \in BOOLEAN :
             text = ResponseText(TRUE, prefixed, FALSE, "absent", "absent", FALSE, None, NoText)
       \/ \E prefixed, faultFirst \in BOOLEAN :
          \E ok \in {"absent", "child", "nested"} :
          \E fault \in {"absent", "Fault", "detail"} :
             /\ faultFirst => (ok # "absent" /\ fault # "absent")
             /\ text = ResponseText(TRUE, prefixed, TRUE, ok, fault, faultFirst, None, NoText)
       \/ \E prefixed, faultFirst \in BOOLEAN :
          \E ok \in {"absent", "child", "nested"} :
          \E code \in ErrorCodeTexts, description \in ErrorDescriptionTexts :
             /\ faultFirst => ok # "absent"
             /\ text = ResponseText(TRUE, prefixed, TRUE, ok, "UPnPError", faultFirst,
                                    code, description)
    /\ parsed = NotParsed
    /\ doc = <<>>
    /\ resolved = <<>>
    /\ parser = "none"
    /\ task = <<>>
    /\ deadline = FALSE
    /\ options = <<>>
    /\ sockQ = <<>>
    /\ arrived = 0
    /\ pending = <<>>
    /\ fetch = <<>>
    /\ fetchCount = <<>>
    /\ lastPoll = <<>>
    /\ outcome = <<>>
    /\ GatewayUnused

ParseTree ==
    /\ parsed = NotParsed
    /\ parsed' = [by |-> "tree", result |-> parse_response(text, ExpectedResponse)]
    /\ UNCHANGED <<text, gwVars, searchVars, oneVars, docVars>>

ParseStream ==
    /\ parsed = NotParsed
    /\ parsed' = [by |-> "stream", result |-> parse_response_stream(text, ExpectedResponse)]
    /\ UNCHANGED <<text, gwVars, searchVars, oneVars, docVars>>

NextEnvelope == ParseTree \/ ParseStream

SpecEnvelope == InitEnvelope /\ [][NextEnvelope]_vars

-----------------------------------------------------------------------------
(* Claims on the envelope parsers                                          *)

\* The document "<Body><Fault>...<errorCode>606</errorCode>
\* <errorDescription>Action not authorized</errorDescription>...</Fault></Body>"
Fault606 ==
    ResponseText(TRUE, FALSE, TRUE, "absent", "UPnPError", FALSE,
                 Some(<<"6", "0", "6">>), Some("Action not authorized"))

\* C23: either parser returns, for every response text, exactly one of
\* success, error-code(code, description) and invalid-response, and never
\* anything else: success only when the Body holds the expected element,
\* error-code only when the Body holds a Fault with a UPnPError, and
\* invalid-response always with the original text; the document with
\* errorCode 606 and errorDescription "Action not authorized" gives
\* error-code(606, "Action not authorized").
C23_ThreeValued ==
    parsed.by # "none" =>
        /\ parsed.result.kind \in {"Ok", "ErrorCode", "InvalidResponse"}
        /\ parsed.result.kind = "Ok" =>
              /\ text.markup /\ text.body /\ text.ok # "absent"
              /\ parsed.result = Success(text)
        /\ parsed.result.kind = "ErrorCode" =>
              /\ text.markup /\ text.body /\ text.fault = "UPnPError"
              /\ parsed.result = ErrorCode(parsed.result.code, parsed.result.description)
        /\ parsed.result.kind = "InvalidResponse" =>
              parsed.result = Parsed("InvalidResponse", 0, "", text)
        /\ text = Fault606 => parsed.result = ErrorCode(606, "Action not authorized")

\* C23 witness: the streaming parser has returned error-code(606, "Action
\* not authorized") for the document of the example.
C23_Witness ==
    /\ text = Fault606
    /\ parsed.by = "stream"
    /\ parsed.result = ErrorCode(606, "Action not authorized")

\* C24: error-code is returned only when the UPnPError holds an errorCode
\* that parses as an unsigned 16-bit integer, and then with that code; a
\* Fault whose UPnPError has no errorCode, or one that is no such number,
\* gives invalid-response with the original text.
C24_ErrorCodeOnlyFromU16 ==
    parsed.by # "none" =>
        /\ parsed.result.kind = "ErrorCode" =>
              /\ text.errorCode.some
              /\ parse_u16(text.errorCode.v) # NotANumber
              /\ parsed.result.code = parse_u16(text.errorCode.v)
        /\ (/\ text.fault = "UPnPError"
            /\ text.ok = "absent"
            /\ ~(text.errorCode.some /\ parse_u16(text.errorCode.v) # NotANumber))
           => parsed.result = Parsed("InvalidResponse", 0, "", text)

-----------------------------------------------------------------------------
(* Claims on add_port, remove_port and get_external_ip, checked under Spec *)

\* The wrapped request error an operation returns for a reply it does not
\* recognise.
RequestErrorOf(a) ==
    CASE a.kind = "fault" ->
            [tag |-> "RequestError", inner |-> "ErrorCode", code |-> a.code,
             desc |-> a.desc, text |-> NoReply]
      [] a.kind = "invalid" ->
            [tag |-> "RequestError", inner |-> "InvalidResponse", code |-> 0,
             desc |-> "", text |-> a]
      [] a.kind = "transport" ->
            [tag |-> "RequestError", inner |-> "HttpError", code |-> 0,
             desc |-> "", text |-> NoReply]

\* The running call has issued one request of the kind and no other; the
\* request went on the wire unless the Gateway's URL is no URI.
OneRequest(kind, action, ext, local) ==
    /\ lastReq.kind = kind
    /\ lastReq.action = action
    /\ lastReq.ext = ext
    /\ lastReq.local = local
    /\ lastReq.wire = UriParses(GatewayUrl(gateway))
    /\ sent = Count(NoneSent, lastReq)
    /\ \/ pc = "done" /\ inflight = NoReq /\ lastAnswer.to = kind
       \/ pc # "done" /\ inflight = lastReq /\ lastAnswer.to = "none"

\* C25: add_port with both ports non-zero sends exactly one AddPortMapping
\* request and maps the reply: success to Ok, 605, 606, 718, 724 and 725 to
\* DescriptionTooLong, ActionNotAuthorized, PortInUse,
\* SamePortValuesRequired and OnlyPermanentLeasesSupported, anything else to
\* the wrapped request error; no second request follows an error.
C25_AddPortSingleRequest ==
    (call.op = "add_port" /\ call.ext # 0 /\ call.local # 0) =>
        /\ OneRequest("add", "AddPortMapping", call.ext, call.local)
        /\ pc = "done" =>
              LET a == lastAnswer.reply IN
              result =
                CASE a.kind = "success" -> Ok(NoPort)
                  [] Fault(a, 605) -> Err(Named("DescriptionTooLong"))
                  [] Fault(a, 606) -> Err(Named("ActionNotAuthorized"))
                  [] Fault(a, 718) -> Err(Named("PortInUse"))
                  [] Fault(a, 724) -> Err(Named("SamePortValuesRequired"))
                  [] Fault(a, 725) -> Err(Named("OnlyPermanentLeasesSupported"))
                  [] OTHER -> Err(RequestErrorOf(a))

\* C25's case: the one AddPortMapping of add_port was answered 718 and the
\* call ended with PortInUse, no other port having been tried.
C25_Witness ==
    /\ pc = "done"
    /\ call.op = "add_port"
    /\ sent = [NoneSent EXCEPT !.add = 1]
    /\ FaultTo(lastAnswer, 718, "add")
    /\ result = Err(Named("PortInUse"))

\* C26: remove_port sends exactly one DeletePortMapping request and maps
\* the reply: success to Ok, 606 to ActionNotAuthorized, 714 to
\* NoSuchPortMapping, anything else to the wrapped request error.
C26_RemovePortSingleRequest ==
    call.op = "remove_port" =>
        /\ OneRequest("remove", "DeletePortMapping", call.ext, NoPort)
        /\ pc = "done" =>
              LET a == lastAnswer.reply IN
              result =
                CASE a.kind = "success" -> Ok(NoPort)
                  [] Fault(a, 606) -> Err(Named("ActionNotAuthorized"))
                  [] Fault(a, 714) -> Err(Named("NoSuchPortMapping"))
                  [] OTHER -> Err(RequestErrorOf(a))

\* C26's case: the one DeletePortMapping was answered 714.
C26_Witness ==
    /\ pc = "done"
    /\ call.op = "remove_port"
    /\ sent = [NoneSent EXCEPT !.remove = 1]
    /\ FaultTo(lastAnswer, 714, "remove")
    /\ result = Err(Named("NoSuchPortMapping"))

\* The text "203.0.113.7".
ExternalIp == <<"2", "0", "3", ".", "0", ".", "1", "1", "3", ".", "7">>

\* C27: get_external_ip sends exactly one GetExternalIPAddress request; it
\* returns the address of NewExternalIPAddress, ActionNotAuthorized on 606,
\* and for a success response with no NewExternalIPAddress, or with one
\* that is no IPv4 address, the wrapped InvalidResponse carrying the body.
C27_ExternalIpSingleRequest ==
    call.op = "get_external_ip" =>
        /\ OneRequest("ip", "GetExternalIPAddress", NoPort, NoPort)
        /\ pc = "done" =>
              LET a == lastAnswer.reply IN
              result =
                CASE a.kind = "success" /\ a.ip = ExternalIp -> OkIp(<<203, 0, 113, 7>>)
                  [] a.kind = "success" /\ a.ip # ExternalIp ->
                        Err([tag |-> "RequestError", inner |-> "InvalidResponse",
                             code |-> 0, desc |-> "", text |-> a])
                  [] Fault(a, 606) -> Err(Named("ActionNotAuthorized"))
                  [] OTHER -> Err(RequestErrorOf(a))

\* C27's case: the response held no IPv4 address and the error carries it.
C27_Witness ==
    /\ pc = "done"
    /\ call.op = "get_external_ip"
    /\ sent = [NoneSent EXCEPT !.ip = 1]
    /\ lastAnswer.reply = Reply("success", 0, "", NoPort, <<"g", "w", ".", "l", "a", "n">>)
    /\ result.err.inner = "InvalidResponse"
    /\ result.err.text = lastAnswer.reply

\* No port-mapping request has gone out in the running call.
NoPortMappingSent == sent.any = 0 /\ sent.random = 0 /\ sent.same = 0 /\ sent.add = 0

\* The port add_any_port resolved to, by the step that succeeded.
PortOfAddAnyPort ==
    CASE lastAnswer.to = "any" -> lastAnswer.reply.port
      [] lastAnswer.to = "random" -> lastReq.ext
      [] lastAnswer.to = "same" -> call.local
      [] OTHER -> NoPort

C28_State ==
    call.op = "get_any_address" =>
        /\ pc = "anyip" =>
              /\ inflight.action = "GetExternalIPAddress"
              /\ NoPortMappingSent
        /\ ~NoPortMappingSent => call.ip = <<203, 0, 113, 7>>
        /\ (pc = "done" /\ lastAnswer.to = "ip") =>
              LET a == lastAnswer.reply IN
              /\ NoPortMappingSent
              /\ result =
                   CASE a.kind = "success" /\ a.ip = ExternalIp ->
                           Err(Named("InternalPortZeroInvalid"))
                     [] a.kind = "success" /\ a.ip # ExternalIp ->
                           Err([tag |-> "RequestError", inner |-> "InvalidResponse",
                                code |-> 0, desc |-> "", text |-> a])
                     [] Fault(a, 606) -> Err(Named("ActionNotAuthorized"))
                     [] OTHER -> Err(RequestErrorOf(a))
        /\ (pc = "done" /\ result.ok) =>
              /\ lastAnswer.to \in {"any", "random", "same"}
              /\ result.ip = <<203, 0, 113, 7>>
              /\ result.port = PortOfAddAnyPort

C28_Step ==
    (pc = "anyip" /\ pc' # "anyip") =>
        LET a == lastAnswer'.reply IN
        IF a.kind = "success" /\ a.ip = ExternalIp /\ call.local # 0
        THEN /\ pc' = "any"
             /\ inflight'.action = "AddAnyPortMapping"
             /\ inflight'.local = call.local
             /\ call'.ip = <<203, 0, 113, 7>>
        ELSE /\ pc' = "done"
             /\ sent' = sent
             /\ ~result'.ok

\* C28: get_any_address performs get_external_ip first and add_any_port
\* second. While GetExternalIPAddress is awaited no port-mapping request has
\* been sent; when get_external_ip fails none is sent and the error is
\* returned as add_any_port's error (ActionNotAuthorized for 606, the
\* request error otherwise); when both succeed the result is the external
\* address paired with the port add_any_port resolved to.
C28_IpThenAnyPort == []C28_State /\ [][C28_Step]_vars

\* C28's case: GetExternalIPAddress gave 203.0.113.7, AddAnyPortMapping
\* reserved port 40001, and the call returned the two as one address.
C28_Witness ==
    /\ pc = "done"
    /\ call.op = "get_any_address"
    /\ lastAnswer.to = "any"
    /\ lastAnswer.reply.port = 40001
    /\ sent = [NoneSent EXCEPT !.ip = 1, !.any = 1]
    /\ result = [Ok(40001) EXCEPT !.ip = <<203, 0, 113, 7>>]

-----------------------------------------------------------------------------
(* The SSDP response parsers on the text of a response: parse_search_result *)
(* of common/parsing.rs, which takes the URL apart with the url crate, and  *)
(* parse_result of search.rs, which matches a regular expression.           *)

\* char::to_ascii_lowercase on the letters a header name is written with.
to_ascii_lowercase_char(c) ==
    CASE c = "L" -> "l" [] c = "O" -> "o" [] c = "C" -> "c" [] c = "A" -> "a"
      [] c = "T" -> "t" [] c = "I" -> "i" [] c = "N" -> "n" [] c = "S" -> "s"
      [] c = "E" -> "e" [] c = "R" -> "r" [] c = "V" -> "v" [] OTHER -> c

\* A bug the match could have: the name is compared as it is written.
to_ascii_lowercase_unchanged(chars) == chars

\* str::to_ascii_lowercase
to_ascii_lowercase(chars) == [i \in DOMAIN chars |-> to_ascii_lowercase_char(chars[i])]

\* Ways of writing the header name "location", and two other names.
Capitalisations ==
    {<<"l", "o", "c", "a", "t", "i", "o", "n">>,
     <<"L", "O", "C", "A", "T", "I", "O", "N">>,
     <<"L", "o", "c", "a", "t", "i", "o", "n">>,
     <<"l", "O", "c", "A", "t", "I", "o", "N">>}

HeaderNames ==
    Capitalisations
    \cup {<<"l", "o", "c", "a", "t", "i", "o", "n", "s">>, <<"S", "e", "r", "v", "e", "r">>}

\* What a device may write as the host, the port (None: no port) and the
\* path of the URL.
UrlHosts ==
    {<<"0", ".", "0", ".", "0", ".", "0">>,
     <<"1", "9", "2", ".", "1", "6", "8", ".", "1", ".", "1">>,
     <<"2", "5", "6", ".", "0", ".", "0", ".", "1">>,
     <<"g", "w", ".", "l", "a", "n">>}
UrlPorts == {None, Some(<<"0">>), Some(<<"5", "0", "0", "0">>), Some(<<"6", "5", "5", "3", "6">>)}
UrlPaths == {"", "/control_url", "/rootDesc.xml"}

\* A response text: a status line, then the header line
\* "<name>:<blanks>http://<host>[:<port>]<path>".
SsdpText(name, blanks, host, port, path) ==
    [name |-> name, blanks |-> blanks, host |-> host, port |-> port, path |-> path]

StatusLine == SsdpText(<<"H", "T", "T", "P", "/", "1", ".", "1">>, 0, <<>>, None, "")

\* text.lines()
lines(ssdp) == <<StatusLine, ssdp>>

\* Result<(SocketAddrV4, String), SearchError>; Option of search.rs's
\* parse_result, whose None is written as the InvalidResponse its caller
\* makes of it, and the panic of an unwrap.
Location(addr, port, path) ==
    [ok |-> TRUE, addr |-> addr, port |-> port, path |-> path, err |-> ""]
NoLocation(err) == [ok |-> FALSE, addr |-> NoAddr, port |-> 0, path |-> "", err |-> err]

\* Url::parse(url_text): a port that is no u16 is an error; url.path() of
\* an http URL with no path is "/".
Url_parse(line) ==
    IF line.port.some /\ parse_u16(line.port.v) = NotANumber
    THEN [ok |-> FALSE, host |-> <<>>, port |-> None, path |-> ""]
    ELSE [ok |-> TRUE, host |-> line.host, port |-> line.port,
          path |-> IF line.path = "" THEN "/" ELSE line.path]

\* url.port_or_known_default(): the port written, else 80 for http.
port_or_known_default(url) == IF url.port.some THEN parse_u16(url.port.v) ELSE 80

\* line.to_ascii_lowercase().starts_with("location:")
starts_with_location(line) ==
    to_ascii_lowercase(line.name) = <<"l", "o", "c", "a", "t", "i", "o", "n">>

\* common/parsing.rs parse_search_result: the first line whose name is
\* "location" in any case decides.
RECURSIVE parse_search_result_lines(_, _)
parse_search_result_lines(ls, i) ==
    IF i > Len(ls) THEN NoLocation("InvalidResponse")
    ELSE IF ~starts_with_location(ls[i]) THEN parse_search_result_lines(ls, i + 1)
    ELSE LET url == Url_parse(ls[i]) IN
         IF ~url.ok THEN NoLocation("InvalidResponse")
         ELSE IF Ipv4Addr_from_str(url.host) = NoAddr THEN NoLocation("InvalidResponse")
         ELSE Location(Ipv4Addr_from_str(url.host), port_or_known_default(url), url.path)

\* The regular expression of parse_result,
\* (?i:Location):\s*http://(\d+\.\d+\.\d+\.\d+):(\d+)(/[^\r]*)
AllDigits(chars) == chars # <<>> /\ \A i \in DOMAIN chars : chars[i] \in DOMAIN Digit

re_captures(line) ==
    /\ to_ascii_lowercase(line.name) = <<"l", "o", "c", "a", "t", "i", "o", "n">>
    /\ Len(SplitDots(line.host)) = 4
    /\ \A i \in DOMAIN SplitDots(line.host) : AllDigits(SplitDots(line.host)[i])
    /\ line.port.some
    /\ AllDigits(line.port.v)
    /\ line.path # ""

\* search.rs parse_result: the first line the expression matches decides;
\* the two unwrap() panic when what it matched is no address or no u16.
RECURSIVE parse_result_lines(_, _)
parse_result_lines(ls, i) ==
    IF i > Len(ls) THEN NoLocation("InvalidResponse")
    ELSE IF ~re_captures(ls[i]) THEN parse_result_lines(ls, i + 1)
    ELSE IF Ipv4Addr_from_str(ls[i].host) = NoAddr \/ parse_u16(ls[i].port.v) = NotANumber
         THEN NoLocation("panic")
         ELSE Location(Ipv4Addr_from_str(ls[i].host), parse_u16(ls[i].port.v), ls[i].path)

InitSsdp ==
    /\ \E name \in HeaderNames, blanks \in {0, 1}, host \in UrlHosts,
          port \in UrlPorts, path \in UrlPaths :
          text = SsdpText(name, blanks, host, port, path)
    /\ parsed = NotParsed
    /\ doc = <<>>
    /\ resolved = <<>>
    /\ parser = "none"
    /\ task = <<>>
    /\ deadline = FALSE
    /\ options = <<>>
    /\ sockQ = <<>>
    /\ arrived = 0
    /\ pending = <<>>
    /\ fetch = <<>>
    /\ fetchCount = <<>>
    /\ lastPoll = <<>>
    /\ outcome = <<>>
    /\ GatewayUnused

ParseSearchResult ==
    /\ parsed = NotParsed
    /\ parsed' = [by |-> "parse_search_result",
                  result |-> parse_search_result_lines(lines(text), 1)]
    /\ UNCHANGED <<text, gwVars, searchVars, oneVars, docVars>>

ParseResult ==
    /\ parsed = NotParsed
    /\ parsed' = [by |-> "parse_result", result |-> parse_result_lines(lines(text), 1)]
    /\ UNCHANGED <<text, gwVars, searchVars, oneVars, docVars>>

NextSsdp == ParseSearchResult \/ ParseResult

SpecSsdp == InitSsdp /\ [][NextSsdp]_vars

\* What the parser that was called gives for a text.
ParsedBy(ssdp) ==
    IF parsed.by = "parse_search_result"
    THEN parse_search_result_lines(lines(ssdp), 1)
    ELSE parse_result_lines(lines(ssdp), 1)

\* The text "location:http://0.0.0.0:0/control_url"
test_parse_search_result_ok ==
    SsdpText(<<"l", "o", "c", "a", "t", "i", "o", "n">>, 0,
             <<"0", ".", "0", ".", "0", ".", "0">>, Some(<<"0">>), "/control_url")

\* C29: the header name LOCATION is matched in any case. A text whose
\* header is written in one capitalisation of "location" gives what the
\* same text gives in every other capitalisation, and when that is a
\* location it is the host, port and path of the URL;
\* "location:http://0.0.0.0:0/control_url" gives 0.0.0.0, 0, "/control_url".
C29_LocationCaseInsensitive ==
    (parsed.by # "none" /\ text.name \in Capitalisations) =>
        /\ \A name \in Capitalisations :
              ParsedBy([text EXCEPT !.name = name]) = parsed.result
        /\ parsed.result.ok =>
              /\ text.host \in {<<"0", ".", "0", ".", "0", ".", "0">>,
                                <<"1", "9", "2", ".", "1", "6", "8", ".", "1", ".", "1">>}
              /\ parsed.result.addr =
                    (IF text.host = <<"0", ".", "0", ".", "0", ".", "0">>
                     THEN <<0, 0, 0, 0>> ELSE <<192, 168, 1, 1>>)
              /\ text.port = Some(<<"0">>) => parsed.result.port = 0
              /\ text.port = Some(<<"5", "0", "0", "0">>) => parsed.result.port = 5000
              /\ text.path # "" => parsed.result.path = text.path
        /\ text = test_parse_search_result_ok =>
              parsed.result = Location(<<0, 0, 0, 0>>, 0, "/control_url")
        /\ text = [test_parse_search_result_ok EXCEPT
                      !.name = <<"L", "O", "C", "A", "T", "I", "O", "N">>] =>
              parsed.result = Location(<<0, 0, 0, 0>>, 0, "/control_url")

\* C29's case: "LOCATION:http://0.0.0.0:0/control_url" has been parsed by
\* parse_search_result to 0.0.0.0, 0 and "/control_url".
C29_Witness ==
    /\ text = [test_parse_search_result_ok EXCEPT
                  !.name = <<"L", "O", "C", "A", "T", "I", "O", "N">>]
    /\ parsed.by = "parse_search_result"
    /\ parsed.result = Location(<<0, 0, 0, 0>>, 0, "/control_url")

-----------------------------------------------------------------------------
(* parse_get_generic_port_mapping_entry of common/parsing.rs on the        *)
(* children of a GetGenericPortMappingEntryResponse.                       *)

\* A child element: missing, or present with its text (no text: <<>>).
Missing == [present |-> FALSE, chars |-> <<>>]
Text(chars) == [present |-> TRUE, chars |-> chars]

\* What a gateway may put in a numeric field, in NewProtocol and in a field
\* of free text.
NumberTexts ==
    {Missing, Text(<<>>), Text(<<"0">>), Text(<<"1">>), Text(<<"0", "1">>),
     Text(<<"+", "1">>), Text(<<"2">>), Text(<<"1", " ">>), Text(<<"a">>),
     Text(<<"6", "5", "5", "3", "6">>),
     Text(<<"4", "2", "9", "4", "9", "6", "7", "2", "9", "5">>),
     Text(<<"4", "2", "9", "4", "9", "6", "7", "2", "9", "6">>)}
ProtocolTexts ==
    {Missing, Text(<<>>), Text(<<"T", "C", "P">>), Text(<<"U", "D", "P">>),
     Text(<<"t", "c", "p">>), Text(<<"T", "C", "P", " ">>)}
FreeTexts == {Missing, Text(<<>>), Text(<<"g", "w">>)}

\* The response of test_parse_get_generic_port_mapping_entry's kind: every
\* field present and well formed.
EntryResponse ==
    [NewRemoteHost |-> Text(<<>>),
     NewExternalPort |-> Text(<<"1">>),
     NewProtocol |-> Text(<<"T", "C", "P">>),
     NewInternalPort |-> Text(<<"1">>),
     NewInternalClient |-> Text(<<"g", "w">>),
     NewEnabled |-> Text(<<"1">>),
     NewPortMappingDescription |-> Text(<<"g", "w">>),
     NewLeaseDuration |-> Text(<<"0">>)]

\* u32::MAX in decimal digits.
u32_MAX == <<"4", "2", "9", "4", "9", "6", "7", "2", "9", "5">>

NoNumber == <<>>

\* str::parse::<u32>, the value in decimal digits: an optional "+", then
\* one digit or more, and no overflow.
parse_u32(chars) ==
    LET digits == IF chars # <<>> /\ chars[1] = "+" THEN Tail(chars) ELSE chars
        n == StripZeros(digits)
    IN  IF digits = <<>> \/ \E i \in DOMAIN digits : digits[i] \notin DOMAIN Digit
        THEN NoNumber
        ELSE IF ~LessOrEqual(n, u32_MAX) THEN NoNumber
        ELSE n

\* RequestError::InvalidResponse(msg) wrapped in
\* GetGenericPortMappingEntryError::RequestError; msg is written in parts.
EntryErr(msg) == [ok |-> FALSE, msg |-> msg, entry |-> <<>>]
EntryOk(entry) == [ok |-> TRUE, msg |-> <<>>, entry |-> entry]

\* extract_field's error, format!("{} is missing", field)
is_missing(field) == EntryErr(<<field, " is missing">>)

\* make_err("Field ... is invalid")
is_invalid(field) == EntryErr(<<"Field ", field, " is invalid">>)

\* NewEnabled's text, "t.parse::<u16>().ok()"
enabled_parse(chars) == parse_u16(chars)

\* parse_get_generic_port_mapping_entry, the fields in the order the code
\* reads them; the first missing or malformed one ends it.
parse_get_generic_port_mapping_entry(xml) ==
    IF ~xml.NewRemoteHost.present THEN is_missing("NewRemoteHost")
    ELSE IF ~xml.NewExternalPort.present THEN is_missing("NewExternalPort")
    ELSE IF parse_u16(xml.NewExternalPort.chars) = NotANumber
         THEN is_invalid("NewExternalPort")
    ELSE IF ~xml.NewProtocol.present THEN is_missing("NewProtocol")
    ELSE IF xml.NewProtocol.chars \notin {<<"U", "D", "P">>, <<"T", "C", "P">>}
         THEN is_invalid("NewProtocol")
    ELSE IF ~xml.NewInternalPort.present THEN is_missing("NewInternalPort")
    ELSE IF parse_u16(xml.NewInternalPort.chars) = NotANumber
         THEN is_invalid("NewInternalPort")
    ELSE IF ~xml.NewInternalClient.present THEN is_missing("NewInternalClient")
    ELSE IF xml.NewInternalClient.chars = <<>>
         THEN EntryErr(<<"Field ", "NewInternalClient", " is empty">>)
    ELSE IF ~xml.NewEnabled.present THEN is_missing("NewEnabled")
    ELSE IF enabled_parse(xml.NewEnabled.chars) = NotANumber THEN is_invalid("Enabled")
    ELSE IF enabled_parse(xml.NewEnabled.chars) \notin {0, 1} THEN is_invalid("NewEnabled")
    ELSE IF ~xml.NewPortMappingDescription.present
         THEN is_missing("NewPortMappingDescription")
    ELSE IF ~xml.NewLeaseDuration.present THEN is_missing("NewLeaseDuration")
    ELSE IF parse_u32(xml.NewLeaseDuration.chars) = NoNumber
         THEN is_invalid("NewLeaseDuration")
    ELSE EntryOk([remote_host |-> xml.NewRemoteHost.chars,
                  external_port |-> parse_u16(xml.NewExternalPort.chars),
                  protocol |-> xml.NewProtocol.chars,
                  internal_port |-> parse_u16(xml.NewInternalPort.chars),
                  internal_client |-> xml.NewInternalClient.chars,
                  enabled |-> enabled_parse(xml.NewEnabled.chars) = 1,
                  port_mapping_description |-> xml.NewPortMappingDescription.chars,
                  lease_duration |-> parse_u32(xml.NewLeaseDuration.chars)])

InitEntry ==
    /\ \E protocol \in ProtocolTexts, enabled \in NumberTexts :
          \/ \E f \in {"NewExternalPort", "NewInternalPort", "NewLeaseDuration"} :
             \E t \in NumberTexts :
                text = [EntryResponse EXCEPT ![f] = t, !.NewProtocol = protocol,
                                             !.NewEnabled = enabled]
          \/ \E f \in {"NewRemoteHost", "NewInternalClient", "NewPortMappingDescription"} :
             \E t \in FreeTexts :
                text = [EntryResponse EXCEPT ![f] = t, !.NewProtocol = protocol,
                                             !.NewEnabled = enabled]
    /\ parsed = NotParsed
    /\ doc = <<>>
    /\ resolved = <<>>
    /\ parser = "none"
    /\ task = <<>>
    /\ deadline = FALSE
    /\ options = <<>>
    /\ sockQ = <<>>
    /\ arrived = 0
    /\ pending = <<>>
    /\ fetch = <<>>
    /\ fetchCount = <<>>
    /\ lastPoll = <<>>
    /\ outcome = <<>>
    /\ GatewayUnused

ParseEntry ==
    /\ parsed = NotParsed
    /\ parsed' = [by |-> "parse_get_generic_port_mapping_entry",
                  result |-> parse_get_generic_port_mapping_entry(text)]
    /\ UNCHANGED <<text, gwVars, searchVars, oneVars, docVars>>

NextEntry == ParseEntry

SpecEntry == InitEntry /\ [][NextEntry]_vars

\* The fields in the order they are read, and whether a field of the
\* response is missing or malformed.
EntryFields ==
    <<"NewRemoteHost", "NewExternalPort", "NewProtocol", "NewInternalPort",
      "NewInternalClient", "NewEnabled", "NewPortMappingDescription", "NewLeaseDuration">>

U16Texts == {<<"0">>, <<"1">>, <<"0", "1">>, <<"+", "1">>, <<"2">>}
U32Texts ==
    U16Texts \cup {<<"6", "5", "5", "3", "6">>,
                   <<"4", "2", "9", "4", "9", "6", "7", "2", "9", "5">>}

MalformedField(field) ==
    \/ ~text[field].present
    \/ field \in {"NewExternalPort", "NewInternalPort"} /\ text[field].chars \notin U16Texts
    \/ field = "NewLeaseDuration" /\ text[field].chars \notin U32Texts
    \/ field = "NewProtocol" /\ text[field].chars \notin {<<"T", "C", "P">>, <<"U", "D", "P">>}
    \/ field = "NewEnabled" /\ text[field].chars \notin {<<"0">>, <<"1">>}
    \/ field = "NewInternalClient" /\ text[field].chars = <<>>

\* The message names the field; "Enabled" is taken as a name of NewEnabled.
NamesField(msg, field) ==
    \E j \in DOMAIN msg :
        msg[j] = field \/ (field = "NewEnabled" /\ msg[j] = "Enabled")

\* C30: an entry is produced only when NewProtocol is exactly "TCP" or "UDP"
\* and NewEnabled exactly "0" or "1"; when a field is missing or malformed
\* no entry is produced and the invalid-response error names a field that is.
C30_ExactProtocolAndEnabled ==
    parsed.by = "parse_get_generic_port_mapping_entry" =>
        /\ parsed.result.ok =>
              /\ text.NewProtocol.chars \in {<<"T", "C", "P">>, <<"U", "D", "P">>}
              /\ text.NewEnabled.chars \in {<<"0">>, <<"1">>}
        /\ (\E i \in DOMAIN EntryFields : MalformedField(EntryFields[i])) =>
              /\ ~parsed.result.ok
              /\ \E i \in DOMAIN EntryFields :
                    /\ MalformedField(EntryFields[i])
                    /\ NamesField(parsed.result.msg, EntryFields[i])

-----------------------------------------------------------------------------
(* Claims on the Gateway value and on add_any_port's requests, checked     *)
(* under Spec.                                                             *)

\* A request is POSTed to http://<addr><control_url> of the Gateway.
ToGateway(req) ==
    req # NoReq => req.url = <<"http://", gateway.addr, gateway.control_url>>

C31_State == ToGateway(inflight) /\ ToGateway(lastReq)

C31_Step == gateway' = gateway

\* C31: no operation, succeeding or failing, changes the Gateway's address
\* or control path, and every request of every call, the first and the
\* later ones alike, is POSTed to http://<addr><control_url> of the Gateway.
C31_GatewayImmutable == []C31_State /\ [][C31_Step]_vars

\* C31's case: a first call has ended and returned, and the request of the
\* second call is on the wire to the same URL.
C31_Witness ==
    /\ calls = 1
    /\ inflight # NoReq
    /\ inflight.wire
    /\ gateway = [addr |-> "192.168.1.1:5000", control_url |-> "/ctl/IPConn"]
    /\ inflight.url = <<"http://", "192.168.1.1:5000", "/ctl/IPConn">>

\* The request carries a candidate port drawn at random.
Candidate(req) == req.kind \in {"any", "random"}

\* C33: every candidate external port add_any_port sends, in its
\* AddAnyPortMapping request and in each random-port AddPortMapping
\* attempt, lies in 32768..65534: neither 65535 nor a port below 32768 is
\* drawn. Each attempt draws from the whole range, whatever was drawn
\* before.
C33_CandidateInRange ==
    /\ Candidate(inflight) => (32768 <= inflight.ext /\ inflight.ext <= 65534)
    /\ Candidate(lastReq) => (32768 <= lastReq.ext /\ lastReq.ext <= 65534)
    /\ anyPort # NoPort => (32768 <= anyPort /\ anyPort <= 65534)

\* C33's case: AddAnyPortMapping went out with 32768, the lower end, and the
\* second random-port attempt with 65534, the upper end.
C33_Witness ==
    /\ call.op = "add_any_port"
    /\ anyPort = 32768
    /\ sent.random = 2
    /\ inflight.kind = "random"
    /\ inflight.ext = 65534

\* C34: add_any_port sends at most 22 requests in all: one
\* AddAnyPortMapping, at most 20 random-port AddPortMapping requests and at
\* most one same-port AddPortMapping request.
C34_AtMostTwentyTwoRequests ==
    call.op = "add_any_port" =>
        /\ sent.any <= 1
        /\ sent.random <= 20
        /\ sent.same <= 1
        /\ sent.any + sent.random + sent.same <= 22


-----------------------------------------------------------------------------
(* The concurrent search polled by its wakers.  A task is polled again     *)
(* only when a waker it left behind is woken: poll_recv_from leaves one    *)
(* with the socket when it returns Pending and none when it returns Ready; *)
(* a Connecting entry's future, polled in the loop, leaves one with its    *)
(* GET; the wake-up takes the waker.                                       *)

\* The socket holds the task's waker: the last poll_recv_from found
\* nothing to read, and nothing has arrived since.
SocketWaker == lastPoll.read = "nothing" /\ sockQ = <<>>

\* The GETs that hold the task's waker: those of the Connecting entries,
\* polled by the loop and not ready.
FetchWakers == {a \in Addrs : pending[a] = Connecting /\ fetch[a].st = "inflight"}

\* The task is scheduled: it was never polled, or the socket became
\* readable under its waker, or a GET polled by the loop has ended.
Woken ==
    \/ lastPoll = NoPoll
    \/ lastPoll.read = "nothing" /\ sockQ # <<>>
    \/ \E a \in Addrs : pending[a] = Connecting /\ fetch[a].st \in {"body", "failed"}

\* The executor polls the woken task.
PollWoken ==
    /\ Woken
    /\ Poll

NextSearchWake ==
    \/ \E d \in Datagrams : DatagramArrives(d)
    \/ SocketFails
    \/ \E a \in Addrs, b \in Bodies : GetCompletes(a, b)
    \/ \E a \in Addrs : GetFails(a)
    \/ PollWoken
    \/ TimeoutElapses

SpecSearchWake == InitSearch /\ [][NextSearchWake]_vars

\* A well-formed response naming an address not yet in the map waits on the
\* socket.
LaterResponse ==
    /\ sockQ # <<>>
    /\ Head(sockQ).kind = "datagram"
    /\ LET h == handle_broadcast_resp(Head(sockQ).from, Head(sockQ).payload)
       IN  h.ok /\ ~contains_key(pending, h.addr) /\ request_control_url(h.addr, h.path).ok

\* C32: after a malformed datagram has been received and skipped, a later
\* well-formed response is still received: with no timeout set, the pending
\* search that has skipped a datagram and has a response waiting on its
\* socket is scheduled, or has left a waker with the socket or with a GET
\* in flight.
C32_SkippedDatagramKeepsWaker ==
    (outcome = PollPending /\ ~options.timeout /\ lastPoll.read = "malformed" /\ LaterResponse)
        => (Woken \/ SocketWaker \/ FetchWakers # {})


-----------------------------------------------------------------------------
(* Claims on the pending map of the concurrent search, checked under       *)
(* SpecSearch.                                                             *)

\* C35 (step part): no step removes a key of the pending map; an entry is
\* inserted as Connecting, and changes only from Connecting to Done or from
\* Connecting to Error; no step issues a GET for a candidate that has
\* failed.
C35_Step ==
    \A a \in Addrs :
        /\ \/ pending'[a] = pending[a]
           \/ pending[a] = Absent /\ pending'[a] = Connecting
           \/ pending[a] = Connecting /\ pending'[a].st \in {"Done", "Error"}
        /\ pending[a].st = "Error" => (fetch'[a] = fetch[a] /\ fetchCount'[a] = fetchCount[a])

\* C35 (state part): a failed candidate is one whose single GET completed
\* with a description that gave no control URL.
C35_State ==
    \A a \in Addrs :
        pending[a].st = "Error" =>
            /\ fetchCount[a] = 1
            /\ fetch[a].st = "body"
            /\ fetch[a].body.kind # "match"

\* C35: an entry of the pending map is never removed and changes only from
\* fetching to resolved or from fetching to failed; a failed candidate is
\* never fetched again during the search, even when the same address
\* answers again.
C35_PendingEntriesOnlyAdvance == []C35_State /\ [][C35_Step]_vars

\* C35 witness: the only candidate's description was no XML, the candidate
\* is failed, and poll has since read another response naming its address
\* and started nothing.
C35_Witness ==
    /\ outcome = PollPending
    /\ lastPoll.read = "duplicate"
    /\ lastPoll.addr = "10.0.0.138:80"
    /\ pending["10.0.0.138:80"].st = "Error"
    /\ pending["10.0.0.1:5000"] = Absent
    /\ fetch["10.0.0.138:80"] = Get("body", Body("notxml", ""))
    /\ fetchCount["10.0.0.138:80"] = 1


\* C36 (step part): what a poll that reads a well-formed response starts is
\* decided by the address of its LOCATION and the pending map alone,
\* whoever sent it: one GET for that address when it is not a key of the
\* map, none when it is, and none for any other address.
C36_Step ==
    (PollStep /\ sockQ # <<>> /\ Head(sockQ).kind = "datagram"
              /\ Head(sockQ).payload.kind = "location") =>
        LET a == Head(sockQ).payload.addr IN
        /\ fetchCount'[a] = IF pending[a] = Absent THEN fetchCount[a] + 1 ELSE fetchCount[a]
        /\ pending'[a] # Absent
        /\ \A b \in Addrs \ {a} :
              /\ fetchCount'[b] = fetchCount[b]
              /\ pending[b] = Absent => pending'[b] = Absent

\* C36 (state part): the addresses fetched are the keys of the map, once
\* each.
C36_State ==
    \A a \in Addrs : fetchCount[a] = IF pending[a] = Absent THEN 0 ELSE 1

\* C36: the de-duplication of the concurrent search is keyed by the address
\* parsed from the LOCATION header, not by the sender of the datagram:
\* datagrams from different senders with the same LOCATION address start
\* one fetch, datagrams from one sender with different LOCATION addresses
\* start one fetch each.
C36_KeyedByLocation == []C36_State /\ [][C36_Step]_vars

\* C36 witness: two responses have been read and each address has its one
\* GET; the last poll read a response sent by host 10.0.0.1 whose LOCATION
\* names the other host's address, and started the GET for the address
\* named, the sender's own address being a key of the map already.
C36_Witness ==
    /\ outcome = PollPending
    /\ lastPoll.read = "new"
    /\ lastPoll.from = "10.0.0.1:1900"
    /\ lastPoll.addr = "10.0.0.138:80"
    /\ arrived = 2
    /\ sockQ = <<>>
    /\ fetchCount = [a \in Addrs |-> 1]
    /\ pending = [a \in Addrs |-> Connecting]


\* C37: the Gateway the concurrent search returns pairs an address with the
\* control URL parsed from the description that was fetched for that same
\* address, also when two fetches complete in the same polling cycle.
C37_GatewayPairsOwnControlUrl ==
    outcome.kind = "Gateway" =>
        /\ fetchCount[outcome.addr] = 1
        /\ fetch[outcome.addr].st = "body"
        /\ handle_control_resp(outcome.addr, fetch[outcome.addr].body).ok
        /\ outcome.control_url = fetch[outcome.addr].body.url
        /\ pending[outcome.addr] = SearchState("Done", outcome.control_url)

\* C37 witness: the descriptions of both candidates have arrived, with
\* different control URLs; the loop of the last poll took 10.0.0.138:80
\* first and returned its Gateway, with its own control URL, leaving the
\* other candidate unlooked at.
C37_Witness ==
    /\ lastPoll.order = <<"10.0.0.138:80", "10.0.0.1:5000">>
    /\ lastPoll.read = "nothing"
    /\ fetch["10.0.0.138:80"] = Get("body", Body("match", "/upnp/control/WANIPConn1"))
    /\ fetch["10.0.0.1:5000"] = Get("body", Body("match", "/ctl/IPConn"))
    /\ pending["10.0.0.1:5000"] = Connecting
    /\ outcome = ReadyOk("10.0.0.138:80", "/upnp/control/WANIPConn1")


-----------------------------------------------------------------------------
(* Claims on the two envelope parsers together, checked under SpecEnvelope *)

\* C38: the streaming parser and the tree parser return the same outcome
\* for every response text and expected success element, including a
\* success element that is not a direct child of Body, a Body holding both
\* a success element and a Fault, and a UPnPError with no errorCode or an
\* empty errorDescription.  Stated for the texts whose element names carry
\* no namespace prefix, where a name as written is the local name.
C38_ParsersAgree ==
    (parsed.by # "none" /\ ~text.prefixed) =>
        parse_response_stream(text, ExpectedResponse) = parse_response(text, ExpectedResponse)


-----------------------------------------------------------------------------
(* Claims on the order of the resolver's search, checked under SpecResolve *)

\* The first matching service of the device's tree in depth-first document
\* order, the device's own services standing before its sub-devices.
RECURSIVE FirstMatch(_), FirstMatchBelow(_, _)
FirstMatch(device) ==
    LET own == { i \in DOMAIN ServicesOf(device) : Matching(ServicesOf(device)[i]) }
    IN  IF own # {}
        THEN Resolved(ServicesOf(device)[CHOOSE i \in own : \A j \in own : i <= j].controlURL.v)
        ELSE FirstMatchBelow(SubDevices(device), 1)

FirstMatchBelow(devices, i) ==
    IF i > Len(devices) THEN Unresolved("InvalidResponse")
    ELSE LET found == FirstMatch(devices[i]) IN
         IF found.ok THEN found
         ELSE FirstMatchBelow(devices, i + 1)

\* C39: the resolver searches depth-first in document order, a device's own
\* services before its sub-devices: of the matching services of the tree
\* it returns the control URL of the first in that order, and a sub-device
\* whose subtree holds no match does not stop the search of its later
\* siblings.
C39_FirstMatchDepthFirst ==
    (Scanned /\ parser = "tree" /\ HasMatch(RootDevice)) => resolved = FirstMatch(RootDevice)

=============================================================================
